---------------------------- MODULE Spec2Model ----------------------------
(***************************************************************************)
(* A model of modules/stream_filter/hds/hds.c, the HTTP Dynamic Streaming  *)
(* stream filter: the fragment index (generate_new_chunk), the chunk chain *)
(* shared by the reader (Read/Peek), the downloader (download_thread) and  *)
(* the live poller (live_thread), and the bootstrap and mdat box parsers.  *)
(*                                                                         *)
(* Pointers to chunks are indices into the arena `chunks` (NULL is 0); a   *)
(* freed chunk keeps its slot with freed = TRUE, so a dangling pointer can *)
(* be told from a live one.  C arrays are 0-based: entry i of a table is   *)
(* element i + 1 of the sequence that models it.                           *)
(***************************************************************************)
EXTENDS Integers, Sequences, FiniteSets, TLC

VARIABLES
    \* stream_sys_t
    live, duration_seconds, flv_header_bytes_sent, closed,
    \* hds_stream_t: the tables parse_BootstrapData fills
    timescale, afrt_timescale, live_current_time, segment_runs, fragment_runs,
    \* hds_stream_t: the chain
    chunks, chunks_head, chunks_livereadpos, chunks_downloadpos,
    \* the fragments the server holds: the frag_nums whose payload has no mdat box
    nomdat,
    \* parse_BootstrapData, and find_chunk_mdat when it runs on its own: the blob
    \* (bootstrap or fragment), the parser's position, its cursor
    \* (an offset into the blob), its two box counters, and whether it has read
    \* at or beyond data_end or through a null cursor
    blob, b_pc, data_p, asrt_count, afrt_count, past_end, null_read,
    \* download_thread: its position, its local chunk and data pointers
    d_pc, d_chunk, d_data,
    \* Read / read_chunk_data / Peek: position, i_read, eof, the local chunk
    \* pointer, dl, and the bytes copied to the consumer's buffers so far
    r_pc, r_i_read, r_eof, r_chunk, r_dl, out,
    \* Peek: its i_peek, and the last two results with no Read between them
    i_peek, peek_prev, peek_last,
    \* live_thread: its position, its local chunk pointer, polls done, and the
    \* local dl of maintain_live_chunks
    l_pc, l_chunk, l_polls, l_dl,
    \* what went wrong: threads that dereferenced a freed chunk, a fatal signal
    uaf, fault,
    \* the thread that holds dl_lock; whether Close has destroyed dl_lock, dl_cond
    \* and abst_lock; Close: its position
    dl_lock, locks_destroyed, c_pc,
    \* stream_sys_t.chunk_count; the fragments requested from the server, each
    \* as <<seg_num, frag_num>>
    chunk_count, fetched,
    \* Open: its position; parse_Manifest: the manifest read, the parser's
    \* position, the elements consumed, the index i of its matching loop, its
    \* two counters and arrays, and the streams appended to sys->hds_streams
    o_pc, manifest, x_pc, x_pos, x_i, media_idx, bootstrap_idx, medias, bootstraps,
    hds_streams

tableVars == <<timescale, afrt_timescale, live_current_time, segment_runs, fragment_runs>>
sysVars   == <<live, duration_seconds, flv_header_bytes_sent, closed>>
chainVars == <<chunks, chunks_head, chunks_livereadpos, chunks_downloadpos>>

dlVars    == <<d_pc, d_chunk, d_data>>
readVars  == <<r_pc, r_i_read, r_eof, r_chunk, r_dl, out>>
peekVars  == <<i_peek, peek_prev, peek_last>>
parseVars == <<blob, b_pc, data_p, asrt_count, afrt_count, past_end, null_read>>
liveVars  == <<l_pc, l_chunk, l_polls, l_dl>>
errVars   == <<uaf, fault>>
syncVars  == <<dl_lock, locks_destroyed, c_pc>>
statVars  == <<chunk_count, fetched>>
manifestVars == <<manifest, x_pc, x_pos, x_i, media_idx, bootstrap_idx, medias,
                  bootstraps, hds_streams>>
openVars  == <<o_pc, manifestVars>>

vars == <<sysVars, tableVars, chainVars, nomdat, parseVars, dlVars, readVars, peekVars,
          liveVars, errVars, syncVars, statVars, openVars>>

NULL == 0

\* a null uint8_t* (mdat_data of a chunk is otherwise an offset into its data)
NULL_PTR == -1

\* what the consumer holds of Peek when it has not peeked since the last Read
NoPeek == [kind |-> "unset", chunk |-> NULL, off |-> 0, len |-> 0, n |-> 0]

-----------------------------------------------------------------------------
(* Bounds of the model *)

\* the fragment index is applied until the chain holds this many chunks
MaxIndexChunks == 6

\* a Read or Peek asks for at most this many payload bytes
MaxRead == 2

\* the live thread polls the bootstrap at most this many times
MaxPolls == 2

\* a bootstrap of the model holds at most this many fragment runs
MaxBlobRuns == 2

\* the downloader publishes at most this many fragments
MaxChunkCount == 4

-----------------------------------------------------------------------------
(* The tables of a bootstrap *)

FragmentRun(s, t, d, x) ==
    [fragment_number_start |-> s, fragment_timestamp |-> t,
     fragment_duration |-> d, discont |-> x]

SegmentRun(f, n) == [first_segment |-> f, fragments_per_segment |-> n]

\* hds.c:1293
download_leadtime == 15

\* calloc(1, sizeof(chunk_t)): every field zero
chunk_new ==
    [duration |-> 0, timestamp |-> 0, frag_num |-> 0, seg_num |-> 0,
     frun_entry |-> 0, data_len |-> 0, mdat_pos |-> 0, mdat_len |-> 0,
     next |-> NULL, mdat_data |-> NULL_PTR, data |-> NULL,
     failed |-> FALSE, eof |-> FALSE, freed |-> FALSE]

\* the result of generate_new_chunk when it returns NULL
NoChunk == [frag_num |-> -1]

-----------------------------------------------------------------------------
(* FragmentIndex: generate_new_chunk *)

\* lines 849-871: timestamp and frag_num before the fragment-run walk
ChunkSeed(last, isLive, fruns, lct, ats, ts) ==
    IF last # NoChunk
    THEN [chunk_new EXCEPT !.timestamp = last.timestamp + last.duration,
                           !.frag_num = last.frag_num + 1]
    ELSE IF isLive
         THEN [chunk_new EXCEPT !.timestamp = (lct * ats) \div ts]
         ELSE [chunk_new EXCEPT !.timestamp = fruns[1].fragment_timestamp,
                                !.frag_num = fruns[1].fragment_number_start]

\* a walk that starts at the first fragment run every time
StartFrunZero(last, isLive) == 0

\* lines 856: the walk starts where the last one ended, in VOD only
StartFrun(last, isLive) ==
    IF last # NoChunk /\ ~isLive THEN last.frun_entry ELSE 0

\* lines 873-918: the walk over fragment_runs[e ..]; yields the chunk and the
\* value of frun_entry when the loop is left
RECURSIVE FrunWalk(_, _, _)
FrunWalk(c, e, fruns) ==
    IF e >= Len(fruns)
    THEN [chunk |-> c, frun_entry |-> e]
    ELSE
      LET r == fruns[e + 1]
          isLast == (e = Len(fruns) - 1)
      IN
      IF r.fragment_duration = 0
      THEN IF isLast
           THEN [chunk |-> NoChunk, frun_entry |-> e]
           ELSE [chunk |-> [c EXCEPT !.frag_num = fruns[e + 2].fragment_number_start,
                                     !.duration = fruns[e + 2].fragment_duration,
                                     !.timestamp = fruns[e + 2].fragment_timestamp],
                 frun_entry |-> e + 1]
      ELSE
        LET c1 == IF c.frag_num = 0
                     /\ (isLast \/ (c.timestamp >= r.fragment_timestamp
                                    /\ c.timestamp < fruns[e + 2].fragment_timestamp))
                  THEN [c EXCEPT !.frag_num = r.fragment_number_start
                                      + ((c.timestamp - r.fragment_timestamp)
                                         \div r.fragment_duration),
                                 !.duration = r.fragment_duration]
                  ELSE c
        IN
        IF r.fragment_number_start <= c1.frag_num
           /\ (isLast \/ fruns[e + 2].fragment_number_start > c1.frag_num)
        THEN [chunk |-> [c1 EXCEPT !.duration = r.fragment_duration,
                                   !.timestamp = r.fragment_timestamp
                                       + r.fragment_duration
                                         * (c1.frag_num - r.fragment_number_start)],
              frun_entry |-> e]
        ELSE FrunWalk(c1, e + 1, fruns)

\* lines 926-947: the segment of frag_num; acc is fragments_accum
RECURSIVE SegmentWalk(_, _, _, _)
SegmentWalk(frag_num, acc, s, sruns) ==
    IF s >= Len(sruns)
    THEN 0
    ELSE
      LET segment == sruns[s + 1].first_segment
                       + ((frag_num - acc) \div sruns[s + 1].fragments_per_segment)
      IN
      IF s + 1 = Len(sruns) \/ sruns[s + 2].first_segment > segment
      THEN segment
      ELSE SegmentWalk(frag_num,
                       acc + (sruns[s + 2].first_segment - sruns[s + 1].first_segment)
                               * sruns[s + 1].fragments_per_segment,
                       s + 1, sruns)

\* line 928: fragments_accum starts at the chunk's own frag_num
SegmentAccumStart(frag_num) == frag_num

\* the same with the end of the stream itself left out
ChunkEofStrict(c, isLive, ats, dur_s) ==
    ~isLive /\ ((c.timestamp + c.duration) \div ats) > dur_s

\* lines 950-956
ChunkEof(c, isLive, ats, dur_s) ==
    ~isLive /\ ((c.timestamp + c.duration) \div ats) >= dur_s

\* generate_new_chunk( p_this, last_chunk, hds_stream ): the new chunk, or
\* NoChunk where the code returns NULL
generate_new_chunk(last, isLive, dur_s, ts, ats, lct, sruns, fruns) ==
    LET w == FrunWalk(ChunkSeed(last, isLive, fruns, lct, ats, ts),
                      StartFrun(last, isLive), fruns)
    IN
    IF w.chunk = NoChunk \/ w.frun_entry = Len(fruns)
    THEN NoChunk
    ELSE LET c == [w.chunk EXCEPT
                     !.seg_num = SegmentWalk(w.chunk.frag_num,
                                             SegmentAccumStart(w.chunk.frag_num),
                                             0, sruns),
                     !.frun_entry = w.frun_entry]
         IN [c EXCEPT !.eof = ChunkEof(c, isLive, ats, dur_s)]

\* generate_new_chunk on the stream's current tables
NewChunkAfter(last) ==
    generate_new_chunk(last, live, duration_seconds, timescale, afrt_timescale,
                       live_current_time, segment_runs, fragment_runs)

-----------------------------------------------------------------------------
(* The chain *)

\* the last chunk of the chain that starts at c (c # NULL)
RECURSIVE ChainTail(_, _)
ChainTail(cs, c) == IF cs[c].next = NULL THEN c ELSE ChainTail(cs, cs[c].next)

\* the chunks of the chain that starts at c, in chain order
RECURSIVE Chain(_, _)
Chain(cs, c) == IF c = NULL THEN << >> ELSE <<c>> \o Chain(cs, cs[c].next)

-----------------------------------------------------------------------------
(* The fragment index on its own: the tables are drawn from the sets below,  *)
(* generate_new_chunk is applied to the tail of the chain again and again,   *)
(* and in live mode maintain_live_chunks runs once on the chain so built.    *)

IndexFragmentRuns ==
    { <<FragmentRun(1, 0, 2500, 0)>>,
      <<FragmentRun(1, 0, 500, 0)>>,
      <<FragmentRun(3, 1000, 2500, 0)>>,
      <<FragmentRun(1, 0, 2000, 0), FragmentRun(3, 4000, 1000, 0)>>,
      <<FragmentRun(1, 0, 2000, 0), FragmentRun(0, 0, 0, 1),
        FragmentRun(10, 50000, 2000, 0)>>,
      <<FragmentRun(1, 0, 2000, 0), FragmentRun(2, 0, 0, 1),
        FragmentRun(10, 50000, 2000, 0)>>,
      <<FragmentRun(1, 0, 2000, 0), FragmentRun(3, 0, 0, 1),
        FragmentRun(10, 50000, 2000, 0)>> }

IndexSegmentRuns ==
    { <<SegmentRun(1, 4)>>,
      <<SegmentRun(1, 2), SegmentRun(3, 1)>> }

\* a null char*: the attribute was not there
NoId == "null"

MAX_BOOTSTRAP_INFO == 10
MAX_MEDIA_ELEMENTS == 10

\* the memset of lines 1126 and 1131
NoMedias == [i \in 1..MAX_MEDIA_ELEMENTS |-> NoId]
NoBootstraps == [j \in 1..MAX_BOOTSTRAP_INFO |-> [id |-> NoId, src |-> 0]]

\* parse_Manifest before it reads its first node
ManifestUnread ==
    /\ x_pos = 0 /\ x_i = 0 /\ media_idx = 0 /\ bootstrap_idx = 0
    /\ medias = NoMedias /\ bootstraps = NoBootstraps /\ hds_streams = << >>

\* Open has returned VLC_SUCCESS; what its parse_Manifest did is not kept
OpenDone ==
    /\ o_pc = "ok" /\ x_pc = "off"
    /\ manifest = [medias |-> << >>, bootstraps |-> << >>]
    /\ ManifestUnread

\* the threads of the stream are not started
ParserOff ==
    /\ blob = << >> /\ b_pc = "off" /\ data_p = 0
    /\ asrt_count = 0 /\ afrt_count = 0
    /\ past_end = FALSE /\ null_read = FALSE

Idle ==
    /\ nomdat = {}
    /\ d_pc = "off" /\ d_chunk = NULL /\ d_data = NULL
    /\ r_pc = "off" /\ r_i_read = 0 /\ r_eof = FALSE /\ r_chunk = NULL
    /\ r_dl = FALSE /\ out = << >>
    /\ i_peek = 0 /\ peek_prev = NoPeek /\ peek_last = NoPeek
    /\ l_chunk = NULL /\ l_polls = 0 /\ l_dl = FALSE
    /\ uaf = {} /\ fault = "none"
    /\ dl_lock = "none" /\ locks_destroyed = FALSE /\ c_pc = "open"
    /\ chunk_count = 0 /\ fetched = {}

threadVarsButOpen == <<nomdat, parseVars, dlVars, readVars, peekVars, liveVars,
                       errVars, syncVars, statVars>>

threadVars == <<threadVarsButOpen, openVars>>

InitIndex ==
    /\ Idle /\ ParserOff /\ OpenDone
    /\ live \in BOOLEAN
    /\ l_pc = IF live THEN "maintain" ELSE "off"
    /\ duration_seconds = IF live THEN 0 ELSE 10
    /\ flv_header_bytes_sent = 0
    /\ closed = FALSE
    /\ timescale = 1000
    /\ afrt_timescale \in {500, 1000}
    /\ live_current_time \in {0, 3000, 10000}
    /\ segment_runs \in IndexSegmentRuns
    /\ fragment_runs \in IndexFragmentRuns
    /\ chunks = << >>
    /\ chunks_head = NULL
    /\ chunks_livereadpos = NULL
    /\ chunks_downloadpos = NULL

\* the first chunk of a chain: generate_new_chunk( p_this, 0, stream )
IndexFirst ==
    /\ chunks_head = NULL
    /\ NewChunkAfter(NoChunk) # NoChunk
    /\ chunks' = <<NewChunkAfter(NoChunk)>>
    /\ chunks_head' = 1
    /\ UNCHANGED <<sysVars, tableVars, chunks_livereadpos, chunks_downloadpos,
                   threadVars>>

\* chunk->next = generate_new_chunk( p_this, chunk, stream ) at the tail
IndexNext ==
    /\ chunks_head # NULL
    /\ Len(chunks) < MaxIndexChunks
    /\ LET t == ChainTail(chunks, chunks_head)
           n == NewChunkAfter(chunks[t])
       IN /\ n # NoChunk
          /\ chunks' = Append([chunks EXCEPT ![t].next = Len(chunks) + 1], n)
    /\ UNCHANGED <<sysVars, tableVars, chunks_head, chunks_livereadpos,
                   chunks_downloadpos, threadVars>>


-----------------------------------------------------------------------------
(* Fetcher: the fragments the server holds and the mdat locator.  A fragment *)
(* is its bytes; byte i of the C buffer is element i + 1 of the sequence.    *)

\* "mdat" and "moof" as bytes
TagMdat == <<109, 100, 97, 116>>
TagMoof == <<109, 111, 111, 102>>

\* a 32-bit big-endian size field holding n (n < 2^24 in this model)
U32Bytes(n) == <<0, (n \div 65536) % 256, (n \div 256) % 256, n % 256>>

\* an ISO-BMFF box with a 32-bit size
Box(tag, payload) == U32Bytes(8 + Len(payload)) \o tag \o payload

\* U32_AT( p ): the big-endian 32-bit value at offset p of b
U32_AT(b, p) ==
    b[p + 1] * 16777216 + b[p + 2] * 65536 + b[p + 3] * 256 + b[p + 4]

\* a box size no buffer of the model reaches: stands for every 64-bit size
\* whose upper half is not zero
HugeSize == 1073741824

\* U64_AT( p )
U64_AT(b, p) ==
    IF U32_AT(b, p) = 0 THEN U32_AT(b, p + 4) ELSE HugeSize

\* the number of payload bytes of fragment f
PayloadLen(f) == f % 3

\* the mdat payload the server holds for fragment f: its bytes name the
\* fragment and the position
Payload(f) == [i \in 1..PayloadLen(f) |-> 16 * f + i]

\* the bytes of fragment f: a moof box, then (unless f is in nomdat) the mdat box
FragmentBytes(f) ==
    IF f \in nomdat
    THEN Box(TagMoof, <<1, 2, 3, 4>>)
    ELSE Box(TagMoof, << >>) \o Box(TagMdat, Payload(f))

\* lines 634-635: fewer than 8 bytes are left at offset pos of the buffer b
NoHeaderAt(b, pos) == Len(b) < pos \/ Len(b) - pos < 8

\* lines 643-669, for the box whose header is at offset pos of the buffer b: the
\* locator fails, or it has found the mdat box (mdatptr, len), or it goes on at
\* offset pos
MdatBox(b, pos) ==
    LET size32  == U32_AT(b, pos)
        boxname == SubSeq(b, pos + 5, pos + 8)
        wide    == (size32 = 1)
    IN
    IF wide /\ Len(b) - (pos + 8) < 12
    THEN [kind |-> "fail", pos |-> pos + 8, mdatptr |-> NULL_PTR, len |-> 0]
    ELSE
      LET boxsize == IF wide THEN U64_AT(b, pos + 8) ELSE size32
          boxdata == IF wide THEN pos + 16 ELSE pos + 8
          after   == IF wide THEN boxdata + (boxsize - 16)
                             ELSE boxdata + (boxsize - 8)
      IN
      IF boxname = TagMdat
      THEN [kind |-> "found", pos |-> after, mdatptr |-> boxdata,
            len |-> Len(b) - boxdata]
      ELSE [kind |-> "next", pos |-> after, mdatptr |-> NULL_PTR, len |-> 0]

\* find_chunk_mdat( p_this, chunkdata, chunkdata_end, &mdatptr ) on the buffer b
\* from offset pos: [mdatptr, len], mdatptr = NULL_PTR where the code stores 0.
\* seen holds the offsets the loop has started a box at: the loop is left with
\* loops = TRUE when it comes back to one of them.
RECURSIVE MdatWalk(_, _, _)
MdatWalk(b, pos, seen) ==
    IF NoHeaderAt(b, pos)
    THEN [mdatptr |-> NULL_PTR, len |-> 0, loops |-> FALSE]
    ELSE IF pos \in seen \/ pos < 0
    THEN [mdatptr |-> NULL_PTR, len |-> 0, loops |-> TRUE]
    ELSE
      LET x == MdatBox(b, pos)
      IN IF x.kind = "next"
         THEN MdatWalk(b, x.pos, seen \cup {pos})
         ELSE [mdatptr |-> x.mdatptr, len |-> x.len, loops |-> FALSE]

find_chunk_mdat(b) == MdatWalk(b, 0, {})

\* the values chunk->data_len - (chunk->mdat_data - data) can take when
\* mdat_data is null: the low 32 bits of data_len plus the buffer's address,
\* below data_len when the sum wraps and above it when it does not
NullMdatLens == {0, 1, 2, HugeSize}

-----------------------------------------------------------------------------
(* The stream after Open: reader, downloader and live poller on one chain.  *)
(* No thread but the downloader takes dl_lock, and the downloader gives it  *)
(* up only in vlc_cond_wait, so the threads interleave at every access to   *)
(* the chain.                                                               *)

Min(a, b) == IF a < b THEN a ELSE b

\* flv_header[]
flv_header == <<70, 76, 86, 1, 5, 0, 0, 0, 9, 0, 0, 0, 0>>

\* a non-null pointer to memory whose content is not known, and a byte of it
GarbageData == -2
GarbageByte == -1

\* chunk_free( chunk ): the slot keeps what the index gave the chunk, for the
\* record; everything else is gone
FreedChunk(c) ==
    [chunk_new EXCEPT !.duration = c.duration, !.timestamp = c.timestamp,
                      !.frag_num = c.frag_num, !.seg_num = c.seg_num,
                      !.frun_entry = c.frun_entry, !.eof = c.eof,
                      !.freed = TRUE]

\* what a thread can read through a pointer to a freed chunk: the memory may
\* be unchanged, zeroed, or reused
GarbageViews ==
    { [chunk_new EXCEPT !.data = d, !.next = n, !.mdat_len = l, !.mdat_data = 0,
                        !.eof = e, !.failed = f, !.freed = TRUE] :
        d \in {NULL, GarbageData}, n \in 0..Len(chunks), l \in {0, 1},
        e \in BOOLEAN, f \in {FALSE} }

\* the values of *c a thread can read
View(c) == IF chunks[c].freed THEN GarbageViews ELSE {chunks[c]}

\* the bytes copied to the consumer, as the model records them: nothing is
\* recorded after the first byte of unknown content
Recorded(o, bytes) ==
    IF o # << >> /\ o[Len(o)] = GarbageByte THEN o
    ELSE IF \E i \in 1..Len(bytes) : bytes[i] = GarbageByte
    THEN Append(o, GarbageByte)
    ELSE o \o bytes

\* thread t dereferences c
Touch(t, c) == IF c # NULL /\ chunks[c].freed THEN uaf \cup {t} ELSE uaf

\* a store to *c: lost when c has been freed
Store(cs, c, rec) == IF cs[c].freed THEN cs ELSE [cs EXCEPT ![c] = rec]

\* vlc_cond_signal( &dl_cond ): wakes the downloader if it waits, else nothing
Signalled(pc) == IF pc = "waiting" THEN "top" ELSE pc

\* vlc_cond_wait takes dl_lock again before it returns: the holder of dl_lock
\* after a signal to a downloader at pc
Woken(pc, holder) == IF pc = "waiting" THEN "downloader" ELSE holder

\* byte i (from 0) of the buffer data points to
ByteAt(data, i) ==
    IF data = GarbageData \/ i < 0 \/ i >= Len(FragmentBytes(data))
    THEN GarbageByte
    ELSE FragmentBytes(data)[i + 1]

-----------------------------------------------------------------------------
(* BootstrapParser: parse_BootstrapData, parse_asrt, parse_afrt.  The blob is *)
(* its bytes; a cursor is an offset from data, NULL_PTR for a null pointer;  *)
(* data_end is Len(b).  g is the value of the bytes that lie past data_end.  *)

TagAbst == <<97, 98, 115, 116>>
TagAsrt == <<97, 115, 114, 116>>
TagAfrt == <<97, 102, 114, 116>>

MAX_HDS_SERVERS == 10
MAX_HDS_SEGMENT_RUNS == 256
MAX_HDS_FRAGMENT_RUNS == 10000

\* U32_AT( p ) where some of the four bytes may lie past the end of b
U32_Past(b, p, g) == U32_AT(b \o <<g, g, g, g>>, p)

\* memchr( data_p, '\0', data_end - data_p ), for p <= Len(b)
Memchr(b, p) ==
    LET S == { i \in p..(Len(b) - 1) : b[i + 1] = 0 }
    IN IF S = {} THEN NULL_PTR ELSE CHOOSE i \in S : \A j \in S : i <= j

\* strnlen( data_p, data_end - data_p ), also the strlen of the strndup copy
Strnlen(b, p) == IF Memchr(b, p) = NULL_PTR THEN Len(b) - p ELSE Memchr(b, p) - p

\* lines 233-258: the quality entries of an asrt box; the cursor after them, or
\* NULL_PTR where parse_asrt returns NULL
RECURSIVE AsrtQuality(_, _, _)
AsrtQuality(b, q, count) ==
    IF count = 0 THEN q
    ELSE LET m == Memchr(b, q)
         IN IF m = NULL_PTR \/ m + 1 >= Len(b) THEN NULL_PTR
            ELSE AsrtQuality(b, m + 1, count - 1)

\* lines 292-307: the segment run entries of an asrt box
SegmentEntries(b, q, count) ==
    [i \in 1..count |-> SegmentRun(U32_AT(b, q + 8 * (i - 1)),
                                   U32_AT(b, q + 8 * (i - 1) + 4))]

\* parse_asrt( p_this, s, data, data_end ) for data = b + p, p < Len(b): the
\* pointer returned, whether a byte at or past data_end was read, the table.
\* The two rejections of lines 280-290 return the same NULL in either order.
parse_asrt(b, p, g, sruns) ==
    LET n        == Len(b)
        asrt_len == U32_Past(b, p, g)
        Fail     == [data_p |-> NULL_PTR, past |-> p + 4 > n, segment_runs |-> sruns]
    IN IF asrt_len > n - p \/ n - p < 14 THEN Fail
       ELSE IF SubSeq(b, p + 5, p + 8) # TagAsrt THEN Fail
       ELSE LET q1 == AsrtQuality(b, p + 13, b[p + 13])
            IN IF q1 = NULL_PTR THEN Fail
               ELSE IF n - q1 < 4 THEN Fail
               ELSE LET count == U32_AT(b, q1)
                        q2    == q1 + 4
                    IN IF count >= MAX_HDS_SEGMENT_RUNS \/ n - q2 < 8 * count
                       THEN Fail
                       ELSE [data_p |-> q2 + 8 * count, past |-> FALSE,
                             segment_runs |-> sruns \o SegmentEntries(b, q2, count)]

\* lines 355-372: the quality entries of an afrt box
RECURSIVE AfrtQuality(_, _, _)
AfrtQuality(b, q, count) ==
    IF count = 0 THEN q
    ELSE LET m == Memchr(b, q)
         IN IF m = NULL_PTR THEN NULL_PTR ELSE AfrtQuality(b, m + 1, count - 1)

\* lines 385-416: the fragment run entries of an afrt box
RECURSIVE AfrtEntries(_, _, _, _, _)
AfrtEntries(b, q, count, g, fruns) ==
    IF count = 0
    THEN [data_p |-> q, past |-> FALSE, fragment_runs |-> fruns]
    ELSE IF Len(b) - q < 16 \/ Len(fruns) >= MAX_HDS_FRAGMENT_RUNS
    THEN [data_p |-> NULL_PTR, past |-> FALSE, fragment_runs |-> fruns]
    ELSE LET dur  == U32_AT(b, q + 12)
             disc == IF dur # 0 THEN 0
                     ELSE IF q + 16 < Len(b) THEN b[q + 17] ELSE g
             run  == FragmentRun(U32_AT(b, q), U64_AT(b, q + 4), dur, disc)
             rest == AfrtEntries(b, IF dur = 0 THEN q + 17 ELSE q + 16,
                                 count - 1, g, Append(fruns, run))
         IN [rest EXCEPT !.past = rest.past \/ (dur = 0 /\ q + 16 >= Len(b))]

\* parse_afrt( p_this, s, data, data_end ) for data = b + p, p < Len(b)
parse_afrt(b, p, g, ats, fruns) ==
    LET n        == Len(b)
        afrt_len == U32_Past(b, p, g)
        Fail(t)  == [data_p |-> NULL_PTR, past |-> p + 4 > n, afrt_timescale |-> t,
                     fragment_runs |-> fruns]
    IN IF afrt_len > n - p \/ n - p < 9 THEN Fail(ats)
       ELSE IF SubSeq(b, p + 5, p + 8) # TagAfrt THEN Fail(ats)
       ELSE IF n - (p + 12) < 9 THEN Fail(ats)
       ELSE LET t  == U32_AT(b, p + 12)
                q1 == AfrtQuality(b, p + 17, b[p + 17])
            IN IF q1 = NULL_PTR THEN Fail(t)
               ELSE IF n - q1 < 5 THEN Fail(t)
               ELSE LET r == AfrtEntries(b, q1 + 4, U32_AT(b, q1), g, fruns)
                    IN [data_p |-> r.data_p, past |-> r.past, afrt_timescale |-> t,
                        fragment_runs |-> r.fragment_runs]

\* lines 487-514: the server entries; the cursor after them, or NULL_PTR where
\* parse_BootstrapData returns
RECURSIVE Servers(_, _, _, _)
Servers(b, q, count, stored) ==
    IF count = 0 THEN q
    ELSE LET m  == Memchr(b, q)
             q1 == IF stored < MAX_HDS_SERVERS THEN q + Strnlen(b, q) + 1
                   ELSE IF m = NULL_PTR THEN NULL_PTR ELSE m + 1
         IN IF q1 = NULL_PTR \/ q1 >= Len(b) THEN NULL_PTR
            ELSE Servers(b, q1, count - 1, Min(stored + 1, MAX_HDS_SERVERS))

\* what parse_BootstrapData has when it returns before line 577
Returned(past, stored, ts, lct) ==
    [ret |-> TRUE, data_p |-> 0, past |-> past, stored |-> stored,
     timescale |-> ts, live_current_time |-> lct, asrt_count |-> 0]

\* lines 521-577: from the quality entries to asrt_count, the cursor q is after
\* the server entries
HeaderTail(b, q, ts, lct) ==
    LET n  == Len(b)
        R  == Returned(FALSE, TRUE, ts, lct)
    IN IF n - q < 3 THEN R
       ELSE IF b[q + 1] > 1 THEN R
       ELSE LET q1 == IF b[q + 1] = 1 THEN q + 1 + Strnlen(b, q + 1) + 1 ELSE q + 1
            IN IF n - q1 < 2 THEN R
               ELSE LET drm == Memchr(b, q1)
                    IN IF drm = NULL_PTR THEN R
                       ELSE IF n - (drm + 1) < 2 THEN R
                       ELSE LET meta == Memchr(b, drm + 1)
                            IN IF meta = NULL_PTR THEN R
                               ELSE IF n - (meta + 1) < 2 THEN R
                               ELSE [ret |-> FALSE, data_p |-> meta + 2,
                                     past |-> FALSE, stored |-> TRUE,
                                     timescale |-> ts, live_current_time |-> lct,
                                     asrt_count |-> b[meta + 2]]

\* lines 440-577 of parse_BootstrapData( p_this, s, data, data_end ): up to the
\* read of asrt_count.  stored: timescale and live_current_time were written.
ParseHeader(b, g) ==
    LET n        == Len(b)
        abst_len == U32_Past(b, 0, g)
    IN IF abst_len > n \/ n < 29 THEN Returned(n < 4, FALSE, 0, 0)
       ELSE IF SubSeq(b, 5, 8) # TagAbst THEN Returned(FALSE, FALSE, 0, 0)
       ELSE LET ts  == U32_AT(b, 17)
                lct == U64_AT(b, 21)
            IN \* line 478: strndup with data_p past data_end reads what follows
               \* the blob; line 481 returns whatever length it found
               IF n < 37 THEN Returned(TRUE, TRUE, ts, lct)
               ELSE LET q1 == 37 + Strnlen(b, 37) + 1
                    IN IF n - q1 < 4 THEN Returned(FALSE, TRUE, ts, lct)
                       ELSE LET q2 == Servers(b, q1 + 1, b[q1 + 1], 0)
                            IN IF q2 = NULL_PTR THEN Returned(FALSE, TRUE, ts, lct)
                               ELSE HeaderTail(b, q2, ts, lct)

\* the values of a byte that lies past the end of the blob
PastBytes == {0, 1}

\* lines 440-579
B_Abst ==
    /\ fault = "none" /\ b_pc = "abst"
    /\ \E g \in PastBytes :
          LET h == ParseHeader(blob, g)
          IN /\ past_end' = (past_end \/ h.past)
             /\ timescale' = IF h.stored THEN h.timescale ELSE timescale
             /\ live_current_time' = IF h.stored THEN h.live_current_time
                                     ELSE live_current_time
             /\ IF h.ret
                THEN /\ b_pc' = "done"
                     /\ UNCHANGED <<data_p, asrt_count, segment_runs>>
                ELSE /\ b_pc' = "asrt"
                     /\ data_p' = h.data_p
                     /\ asrt_count' = h.asrt_count
                     /\ segment_runs' = << >>
    /\ UNCHANGED <<sysVars, afrt_timescale, fragment_runs, chainVars, nomdat, openVars, blob,
                   afrt_count, null_read, dlVars, readVars, peekVars, liveVars,
                   errVars, syncVars, statVars>>

\* lines 580-582: one evaluation of the condition of the asrt loop
B_Asrt ==
    /\ fault = "none" /\ b_pc = "asrt"
    /\ asrt_count' = (asrt_count - 1) % 256
    /\ IF asrt_count > 0 /\ Len(blob) > data_p
       THEN \E g \in PastBytes :
               LET r == parse_asrt(blob, data_p, g, segment_runs)
               IN /\ data_p' = r.data_p
                  /\ segment_runs' = r.segment_runs
                  /\ past_end' = (past_end \/ r.past)
                  /\ b_pc' = IF r.data_p = NULL_PTR THEN "afrt_count" ELSE "asrt"
       ELSE /\ b_pc' = "afrt_count"
            /\ UNCHANGED <<data_p, segment_runs, past_end>>
    /\ UNCHANGED <<sysVars, timescale, afrt_timescale, live_current_time,
                   fragment_runs, chainVars, nomdat, openVars, blob, afrt_count, null_read,
                   dlVars, readVars, peekVars, liveVars, errVars, syncVars, statVars>>

\* lines 584-587: afrt_count = *data_p; the read through a null data_p faults
B_AfrtCount ==
    /\ fault = "none" /\ b_pc = "afrt_count"
    /\ IF data_p = NULL_PTR
       THEN /\ null_read' = TRUE
            /\ fault' = "segv"
            /\ b_pc' = "done"
            /\ UNCHANGED <<data_p, afrt_count, past_end, fragment_runs>>
       ELSE /\ \E g \in PastBytes :
                 afrt_count' = IF data_p < Len(blob) THEN blob[data_p + 1] ELSE g
            /\ past_end' = (past_end \/ data_p >= Len(blob))
            /\ data_p' = data_p + 1
            /\ fragment_runs' = << >>
            /\ b_pc' = "afrt"
            /\ UNCHANGED <<null_read, fault>>
    /\ UNCHANGED <<sysVars, timescale, afrt_timescale, live_current_time,
                   segment_runs, chainVars, nomdat, openVars, blob, asrt_count, dlVars,
                   readVars, peekVars, liveVars, uaf, syncVars, statVars>>

\* lines 588-590: one evaluation of the condition of the afrt loop
B_Afrt ==
    /\ fault = "none" /\ b_pc = "afrt"
    /\ afrt_count' = (afrt_count - 1) % 256
    /\ IF afrt_count > 0 /\ Len(blob) > data_p
       THEN \E g \in PastBytes :
               LET r == parse_afrt(blob, data_p, g, afrt_timescale, fragment_runs)
               IN /\ data_p' = r.data_p
                  /\ afrt_timescale' = r.afrt_timescale
                  /\ fragment_runs' = r.fragment_runs
                  /\ past_end' = (past_end \/ r.past)
                  /\ b_pc' = IF r.data_p = NULL_PTR THEN "done" ELSE "afrt"
       ELSE /\ b_pc' = "done"
            /\ UNCHANGED <<data_p, afrt_timescale, fragment_runs, past_end>>
    /\ UNCHANGED <<sysVars, timescale, live_current_time, segment_runs, chainVars,
                   nomdat, openVars, blob, asrt_count, null_read, dlVars, readVars, peekVars,
                   liveVars, errVars, syncVars, statVars>>

\* the bootstraps a server can send: their boxes as bytes
U64Bytes(n) == <<0, 0, 0, 0>> \o U32Bytes(n)

RECURSIVE Flatten(_)
Flatten(ss) == IF ss = << >> THEN << >> ELSE Head(ss) \o Flatten(Tail(ss))

SegmentRunBytes(r) == U32Bytes(r.first_segment) \o U32Bytes(r.fragments_per_segment)

FragmentRunBytes(r) ==
    U32Bytes(r.fragment_number_start) \o U64Bytes(r.fragment_timestamp)
        \o U32Bytes(r.fragment_duration)
        \o (IF r.fragment_duration = 0 THEN <<r.discont>> ELSE << >>)

\* an asrt box (no quality entries) under the tag given
AsrtBox(tag, sruns) ==
    Box(tag, <<0, 0, 0, 0, 0>> \o U32Bytes(Len(sruns))
             \o Flatten([i \in 1..Len(sruns) |-> SegmentRunBytes(sruns[i])]))

\* an afrt box (no quality entries) under the tag given
AfrtBox(tag, ats, fruns) ==
    Box(tag, <<0, 0, 0, 0>> \o U32Bytes(ats) \o <<0>> \o U32Bytes(Len(fruns))
             \o Flatten([i \in 1..Len(fruns) |-> FragmentRunBytes(fruns[i])]))

\* an abst box: movie id "m", the server and quality strings given, empty DRM
\* data and metadata, then the asrt and the afrt boxes
AbstBox(ts, lct, servers, quality, asrts, afrts) ==
    Box(TagAbst, <<0, 0, 0, 0>> \o U32Bytes(1) \o <<0>> \o U32Bytes(ts)
                 \o U64Bytes(lct) \o U64Bytes(0) \o <<109, 0>>
                 \o <<Len(servers)>> \o Flatten(servers)
                 \o <<Len(quality)>> \o Flatten(quality)
                 \o <<0>> \o <<0>>
                 \o <<Len(asrts)>> \o Flatten(asrts)
                 \o <<Len(afrts)>> \o Flatten(afrts))

\* the fragment runs of the bootstraps: the first k of these
BlobRuns ==
    <<FragmentRun(1, 0, 1000, 0), FragmentRun(0, 0, 0, 1),
      FragmentRun(5, 9000, 1000, 0)>>

BlobFragmentRuns == { SubSeq(BlobRuns, 1, k) : k \in 1..Min(MaxBlobRuns, Len(BlobRuns)) }

\* whole bootstraps, well formed but for the tag of a sub-box
Bootstraps ==
    { AbstBox(1000, 2000, strs, strs, <<AsrtBox(t1, <<SegmentRun(1, 4)>>)>>,
              <<AfrtBox(t2, 500, fruns)>>) :
        strs \in {<< >>, <<<<115, 0>>>>},
        t1 \in {TagAsrt, TagMoof}, t2 \in {TagAfrt, TagMoof},
        fruns \in BlobFragmentRuns }

\* the first n bytes of b; with patch, the size field of the abst says n
Cut(b, n, patch) ==
    IF patch /\ n >= 4 THEN U32Bytes(n) \o SubSeq(b, 5, n) ELSE SubSeq(b, 1, n)

\* the blobs parse_BootstrapData is given: whole and truncated
Blobs ==
    UNION { { Cut(b, n, patch) : n \in 0..Len(b), patch \in BOOLEAN } :
            b \in Bootstraps }

-----------------------------------------------------------------------------
(* parse_Manifest: the chain a VOD stream is opened with *)

\* lines 1299-1306: cs is the chain built so far, in order; total is
\* total_duration
RECURSIVE Prime(_, _, _, _, _, _)
Prime(cs, total, dur_s, ats, sruns, fruns) ==
    IF total \div ats < download_leadtime
    THEN LET n == generate_new_chunk(cs[Len(cs)], FALSE, dur_s, 0, ats, 0, sruns, fruns)
         IN IF n = NoChunk
            THEN cs
            ELSE Prime(Append([cs EXCEPT ![Len(cs)].next = Len(cs) + 1], n),
                       total + n.duration, dur_s, ats, sruns, fruns)
    ELSE cs

\* lines 1295-1298
PrimedChain(dur_s, ats, sruns, fruns) ==
    LET h == generate_new_chunk(NoChunk, FALSE, dur_s, 0, ats, 0, sruns, fruns)
    IN Prime(<<h>>, h.duration, dur_s, ats, sruns, fruns)

\* the VOD streams of the model: total duration in seconds and the fragment runs
VodStreams ==
    { [duration_seconds |-> 24, fragment_runs |-> <<FragmentRun(1, 0, 8000, 0)>>],
      [duration_seconds |-> 40, fragment_runs |-> <<FragmentRun(1, 0, 20000, 0)>>],
      [duration_seconds |-> 10, fragment_runs |-> <<FragmentRun(1, 0, 5000, 0)>>] }

\* the bootstrap a live server answers the k-th poll with
LiveFragmentRuns == <<FragmentRun(1, 0, 1000, 0)>>
LiveCurrentTime(k) == 2000 * k

\* Open() of a VOD manifest: parse_Manifest has parsed the bootstrap and primed
\* the chain; the downloader is started
InitVodOf(streams) ==
    /\ live = FALSE
    /\ \E v \in streams :
          /\ duration_seconds = v.duration_seconds
          /\ fragment_runs = v.fragment_runs
    /\ timescale = 1000 /\ afrt_timescale = 1000 /\ live_current_time = 0
    /\ segment_runs = <<SegmentRun(1, 4)>>
    /\ chunks = PrimedChain(duration_seconds, afrt_timescale, segment_runs, fragment_runs)
    /\ chunks_head = 1

\* Open() of a live manifest: the stream is zeroed (line 1266), the bootstrap is
\* left to the live thread
InitLive ==
    /\ live = TRUE
    /\ duration_seconds = 0
    /\ fragment_runs = << >> /\ segment_runs = << >>
    /\ timescale = 0 /\ afrt_timescale = 0 /\ live_current_time = 0
    /\ chunks = << >>
    /\ chunks_head = NULL

InitVod == InitVodOf(VodStreams)

\* Open() has returned VLC_SUCCESS: the threads are started, nothing is read
Opened ==
    /\ OpenDone
    /\ flv_header_bytes_sent = 0
    /\ closed = FALSE
    /\ chunks_livereadpos = NULL
    /\ chunks_downloadpos = NULL
    /\ nomdat \in {{}, {2}}
    /\ ParserOff
    /\ d_pc = "top" /\ d_chunk = NULL /\ d_data = NULL
    /\ r_pc = "idle" /\ r_i_read = 0 /\ r_eof = FALSE /\ r_chunk = NULL
    /\ r_dl = FALSE /\ out = << >>
    /\ i_peek = 0 /\ peek_prev = NoPeek /\ peek_last = NoPeek
    /\ l_pc = (IF live THEN "poll" ELSE "off")
    /\ l_chunk = NULL /\ l_polls = 0 /\ l_dl = FALSE
    /\ uaf = {} /\ fault = "none"
    /\ dl_lock = "downloader" /\ locks_destroyed = FALSE /\ c_pc = "open"
    /\ chunk_count = 0 /\ fetched = {}

Init == (InitVod \/ InitLive) /\ Opened

-----------------------------------------------------------------------------
(* Downloader: download_thread *)

\* line 784 and line 786 up to the start of the scan (lines 788); line 828 when
\* the stream is closed
D_Top ==
    /\ fault = "none" /\ d_pc = "top"
    /\ IF closed
       THEN d_pc' = "done" /\ d_chunk' = d_chunk /\ dl_lock' = "none"
       ELSE /\ dl_lock' = dl_lock
            /\ IF chunks_downloadpos = NULL
               THEN d_pc' = "scan" /\ d_chunk' = chunks_head
               ELSE d_pc' = "inner" /\ d_chunk' = d_chunk
    /\ UNCHANGED <<sysVars, tableVars, chainVars, nomdat, openVars, parseVars, locks_destroyed,
                   c_pc, statVars, d_data, readVars, peekVars, liveVars, errVars>>

\* lines 789-795: one turn of the scan for the first chunk without data
D_Scan ==
    /\ fault = "none" /\ d_pc = "scan"
    /\ IF d_chunk = NULL
       THEN /\ d_pc' = "inner"
            /\ UNCHANGED <<d_chunk, chunks_downloadpos, uaf>>
       ELSE /\ uaf' = Touch("downloader", d_chunk)
            /\ \E v \in View(d_chunk) :
                 IF v.data # NULL
                 THEN /\ d_chunk' = v.next
                      /\ UNCHANGED <<d_pc, chunks_downloadpos>>
                 ELSE /\ chunks_downloadpos' = d_chunk
                      /\ d_pc' = "inner"
                      /\ UNCHANGED d_chunk
    /\ UNCHANGED <<sysVars, tableVars, chunks, chunks_head, chunks_livereadpos,
                   nomdat, openVars, parseVars, syncVars, statVars, d_data, readVars, peekVars, liveVars, fault>>

\* line 798: the test of the inner loop
D_Inner ==
    /\ fault = "none" /\ d_pc = "inner"
    /\ IF chunks_downloadpos = NULL
       THEN d_pc' = "wait" /\ d_chunk' = d_chunk
       ELSE d_pc' = "fetch" /\ d_chunk' = chunks_downloadpos
    /\ UNCHANGED <<sysVars, tableVars, chainVars, nomdat, openVars, parseVars, syncVars, statVars, d_data, readVars,
                   peekVars, liveVars, errVars>>

\* lines 709-714: what the fragment URL names
FragmentUrl(v) == <<v.seg_num, v.frag_num>>

\* what stream_UrlNew, stream_Size and stream_Read can do for one fragment: all
\* of it is delivered, fewer bytes are, the URL cannot be opened, the size
\* reported is MAX_REQUEST_SIZE + 1
FetchOutcomes == {"ok", "short", "open", "oversize"}

\* 50*1024*1024
MAX_REQUEST_SIZE == 52428800

\* download_chunk( s, sys, stream, chunk ): the chunk after the call and the
\* pointer returned, for the chunk as read (v) and the outcome of the fetch
download_chunk(v, outcome) ==
    CASE outcome = "ok" ->
           [chunk |-> [v EXCEPT !.data_len = Len(FragmentBytes(v.frag_num)),
                                !.failed = FALSE],
            data |-> IF v.freed THEN GarbageData ELSE v.frag_num]
      [] outcome = "short" ->
           [chunk |-> [v EXCEPT !.data_len = Len(FragmentBytes(v.frag_num)) - 1,
                                !.failed = TRUE],
            data |-> NULL]
      [] outcome = "oversize" ->
           [chunk |-> [v EXCEPT !.data_len = MAX_REQUEST_SIZE + 1], data |-> NULL]
      [] OTHER ->
           [chunk |-> [v EXCEPT !.failed = TRUE], data |-> NULL]

\* line 802: the fetch, with dl_lock held, for a server whose answers are those
\* of the set outcomes
D_FetchOf(outcomes) ==
    /\ fault = "none" /\ d_pc = "fetch"
    /\ uaf' = Touch("downloader", d_chunk)
    /\ \E v \in View(d_chunk), o \in outcomes :
          LET r == download_chunk(v, o)
          IN /\ chunks' = Store(chunks, d_chunk, r.chunk)
             /\ d_data' = r.data
             /\ fetched' = fetched \cup {FragmentUrl(v)}
    /\ d_pc' = "publish"
    /\ UNCHANGED <<sysVars, tableVars, chunks_head, chunks_livereadpos,
                   chunks_downloadpos, nomdat, openVars, parseVars, syncVars, chunk_count,
                   d_chunk, readVars, peekVars, liveVars, fault>>

\* lines 809-818: the chunk v with its mdat found in the buffer data, for one of
\* the values len0 the expression of line 815 can take when mdat_data is null
Published(v, data, len0) ==
    LET m == find_chunk_mdat(FragmentBytes(data))
    IN [v EXCEPT !.mdat_data = m.mdatptr,
                 !.mdat_len = IF m.len # 0 THEN m.len
                              ELSE IF m.mdatptr = NULL_PTR THEN len0
                              ELSE v.data_len - m.mdatptr,
                 !.data = data]

\* lines 807-821; find_chunk_mdat reads through the null buffer (line 642) when
\* download_chunk returned NULL for a chunk that is not marked failed
D_Publish ==
    /\ fault = "none" /\ d_pc = "publish"
    /\ uaf' = Touch("downloader", d_chunk)
    /\ d_pc' = "inner"
    /\ \E v \in View(d_chunk) :
          IF v.failed
          THEN UNCHANGED <<chunks, chunks_downloadpos, chunk_count, fault>>
          ELSE IF d_data = NULL
          THEN /\ fault' = "segv"
               /\ UNCHANGED <<chunks, chunks_downloadpos, chunk_count>>
          ELSE /\ chunk_count < MaxChunkCount
               /\ \E len0 \in NullMdatLens :
                     chunks' = Store(chunks, d_chunk, Published(v, d_data, len0))
               /\ chunks_downloadpos' = v.next
               /\ chunk_count' = chunk_count + 1
               /\ UNCHANGED fault
    /\ UNCHANGED <<sysVars, tableVars, chunks_head, chunks_livereadpos, nomdat, openVars, parseVars,
                   syncVars, fetched, d_chunk, d_data, readVars, peekVars, liveVars>>

\* line 824: vlc_cond_wait gives up dl_lock and sleeps
D_Wait ==
    /\ fault = "none" /\ d_pc = "wait"
    /\ d_pc' = "waiting"
    /\ dl_lock' = "none"
    /\ UNCHANGED <<sysVars, tableVars, chainVars, nomdat, openVars, parseVars, locks_destroyed,
                   c_pc, statVars, d_chunk, d_data, readVars, peekVars, liveVars,
                   errVars>>

D_Fetch == D_FetchOf(FetchOutcomes)

Downloader == D_Top \/ D_Scan \/ D_Inner \/ D_Fetch \/ D_Publish \/ D_Wait

\* the downloader when every fetch succeeds
D_FetchOk == D_FetchOf({"ok"})

DownloaderOk == D_Top \/ D_Scan \/ D_Inner \/ D_FetchOk \/ D_Publish \/ D_Wait

-----------------------------------------------------------------------------
(* ReaderFacade: Read, read_chunk_data, Peek *)

\* send_flv_header( p_sys, buffer, i_read, peek ): to_be_read
send_flv_header(i_read, sent) == Min(i_read, 13 - sent)

\* a copy that starts at the first header byte whatever has been sent
HeaderBytesFromStart(sent, n) == SubSeq(flv_header, 1, n)

\* line 1495: memcpy( buffer, flv_header + flv_header_bytes_sent, to_be_read )
HeaderBytes(sent, n) == SubSeq(flv_header, sent + 1, sent + n)

\* the request sizes of the stream's consumer: the header bytes still unsent
\* and at most MaxRead bytes of payload
ReadSizes == {(13 - flv_header_bytes_sent) + k : k \in 0..MaxRead}

\* lines 1619-1624: Read( s, buffer, i_read ) up to its loop, for a request
\* size of the set sizes
R_ReadOf(sizes) ==
    /\ fault = "none" /\ r_pc = "idle" /\ c_pc = "open"
    /\ \E n \in sizes :
          LET hdr == send_flv_header(n, flv_header_bytes_sent)
          IN /\ out' = out \o HeaderBytes(flv_header_bytes_sent, hdr)
             /\ flv_header_bytes_sent' = flv_header_bytes_sent + hdr
             /\ r_i_read' = n - hdr
    /\ r_eof' = FALSE
    /\ r_pc' = "loop"
    /\ peek_prev' = NoPeek /\ peek_last' = NoPeek
    /\ UNCHANGED <<live, duration_seconds, closed, tableVars, chainVars, nomdat, openVars, parseVars, syncVars, statVars,
                   dlVars, r_chunk, r_dl, i_peek, liveVars, errVars>>

\* line 1625: the test of Read's loop; line 1512: read_chunk_data is entered
R_Loop ==
    /\ fault = "none" /\ r_pc = "loop"
    /\ IF r_i_read > 0 /\ ~r_eof
       THEN r_pc' = "rcd" /\ r_chunk' = chunks_head /\ r_dl' = FALSE
       ELSE r_pc' = "idle" /\ UNCHANGED <<r_chunk, r_dl>>
    /\ UNCHANGED <<sysVars, tableVars, chainVars, nomdat, openVars, parseVars, syncVars, statVars, dlVars, r_i_read, r_eof,
                   out, peekVars, liveVars, errVars>>

\* lines 1516-1519
R_Entry ==
    /\ fault = "none" /\ r_pc = "rcd"
    /\ uaf' = Touch("reader", r_chunk)
    /\ IF r_chunk = NULL
       THEN r_pc' = "iter" /\ UNCHANGED r_eof
       ELSE \E v \in View(r_chunk) :
              IF v.eof /\ v.mdat_pos >= v.mdat_len
              THEN r_eof' = TRUE /\ r_pc' = "loop"
              ELSE r_pc' = "iter" /\ UNCHANGED r_eof
    /\ UNCHANGED <<sysVars, tableVars, chainVars, nomdat, openVars, parseVars, syncVars, statVars, dlVars, r_i_read,
                   r_chunk, r_dl, out, peekVars, liveVars, fault>>

\* line 1521: the condition of read_chunk_data's loop, for the chunk as read
Readable(v, read_len) ==
    v.data # NULL /\ read_len > 0 /\ ~(v.eof /\ v.mdat_pos >= v.mdat_len)

\* lines 1530-1532: cp_len
CopyLen(v, read_len) ==
    IF v.mdat_pos < v.mdat_len THEN Min(v.mdat_len - v.mdat_pos, read_len) ELSE 0

\* line 1533: the bytes memcpy moves
Copied(v, n) ==
    [i \in 1..n |-> IF v.mdat_data = NULL_PTR THEN GarbageByte
                    ELSE ByteAt(v.data, v.mdat_data + v.mdat_pos + (i - 1))]

\* lines 1541 and 1562: the chunk is done with
Drained(v) == v.mdat_pos >= v.mdat_len \/ v.failed

\* line 1526: the successor the loop goes on with
SavedNext(v) == v.next

\* lines 1526-1565: one turn of read_chunk_data's loop on chunk c, read as v
R_Turn(c, v) ==
    LET cp   == CopyLen(v, r_i_read)
        v1   == [v EXCEPT !.mdat_pos = v.mdat_pos + cp]
        gen  == ~live /\ Drained(v1) /\ v1.next = NULL /\ ~v1.eof
        n    == NewChunkAfter(v1)
        v2   == IF gen /\ n # NoChunk
                THEN [v1 EXCEPT !.next = Len(chunks) + 1] ELSE v1
        cs1  == Store(chunks, c, v2)
        cs2  == IF gen /\ n # NoChunk THEN Append(cs1, n) ELSE cs1
        free == ~live /\ Drained(v1) /\ ~v1.eof
    IN
    /\ IF cp > 0 /\ v.mdat_data = NULL_PTR
       THEN fault' = "segv" /\ out' = out
       ELSE fault' = fault /\ out' = Recorded(out, Copied(v, cp))
    /\ r_i_read' = r_i_read - cp
    /\ r_eof' = (r_eof \/ (~live /\ Drained(v1) /\ v1.eof))
    /\ r_dl' = (r_dl \/ gen)
    /\ chunks' = IF free THEN [cs2 EXCEPT ![c] = FreedChunk(cs2[c])] ELSE cs2
    /\ r_chunk' = IF Drained(v1) /\ (live \/ free) THEN SavedNext(v) ELSE c
    /\ chunks_head' = IF free THEN SavedNext(v) ELSE chunks_head

\* lines 1521-1566: the loop of read_chunk_data, one turn at a time
R_Iter ==
    /\ fault = "none" /\ r_pc = "iter"
    /\ uaf' = Touch("reader", r_chunk)
    /\ IF r_chunk = NULL
       THEN /\ r_pc' = "post"
            /\ UNCHANGED <<chunks, chunks_head, r_i_read, r_eof, r_chunk, r_dl,
                           out, fault>>
       ELSE \E v \in View(r_chunk) :
              IF Readable(v, r_i_read)
              THEN r_pc' = "iter" /\ R_Turn(r_chunk, v)
              ELSE /\ r_pc' = "post"
                   /\ UNCHANGED <<chunks, chunks_head, r_i_read, r_eof, r_chunk,
                                  r_dl, out, fault>>
    /\ UNCHANGED <<sysVars, tableVars, chunks_livereadpos, chunks_downloadpos,
                   nomdat, openVars, parseVars, syncVars, statVars, dlVars, peekVars, liveVars>>

\* lines 1576-1597: chunks are generated until download_leadtime seconds lie
\* ahead of the head; c is the loop's chunk, total is total_duration
RECURSIVE LeadTime(_, _, _, _)
LeadTime(cs, c, total, dl) ==
    IF c # NULL /\ total \div afrt_timescale < download_leadtime /\ ~cs[c].eof
    THEN LET gen == (cs[c].next = NULL)
             n   == NewChunkAfter(cs[c])
             cs1 == IF gen /\ n # NoChunk
                    THEN Append([cs EXCEPT ![c].next = Len(cs) + 1], n)
                    ELSE cs
             nx  == cs1[c].next
         IN LeadTime(cs1, nx, IF nx # NULL THEN total + cs1[nx].duration ELSE total,
                     dl \/ gen)
    ELSE [chunks |-> cs, dl |-> dl]

\* lines 1568-1603: the end of read_chunk_data
R_Post ==
    /\ fault = "none" /\ r_pc = "post"
    /\ r_pc' = "loop"
    /\ IF live
       THEN /\ chunks_livereadpos' = r_chunk
            /\ UNCHANGED <<chunks, d_pc, r_dl, dl_lock>>
       ELSE LET r == IF chunks_head # NULL
                     THEN LeadTime(chunks, chunks_head,
                                   chunks[chunks_head].duration, r_dl)
                     ELSE [chunks |-> chunks, dl |-> r_dl]
            IN /\ chunks' = r.chunks
               /\ r_dl' = r.dl
               /\ d_pc' = IF r.dl THEN Signalled(d_pc) ELSE d_pc
               /\ dl_lock' = IF r.dl THEN Woken(d_pc, dl_lock) ELSE dl_lock
               /\ UNCHANGED chunks_livereadpos
    /\ UNCHANGED <<sysVars, tableVars, chunks_head, chunks_downloadpos, nomdat, openVars, parseVars,
                   locks_destroyed, c_pc, statVars,
                   d_chunk, d_data, r_i_read, r_eof, r_chunk, out, peekVars,
                   liveVars, errVars>>

\* the request sizes of Peek in the model
PeekSizes == 1..MaxRead

\* lines 1646-1650: Peek while header bytes are unsent; line 1652: the head is
\* read
P_Peek ==
    /\ fault = "none" /\ r_pc = "idle" /\ c_pc = "open"
    /\ \E n \in PeekSizes :
          IF flv_header_bytes_sent < 13
          THEN /\ peek_last' = [kind |-> "header", chunk |-> NULL,
                                off |-> flv_header_bytes_sent,
                                len |-> 13 - flv_header_bytes_sent, n |-> n]
               /\ peek_prev' = peek_last
               /\ i_peek' = n
               /\ UNCHANGED <<r_pc, r_chunk>>
          ELSE /\ r_pc' = "peek" /\ r_chunk' = chunks_head /\ i_peek' = n
               /\ UNCHANGED <<peek_prev, peek_last>>
    /\ UNCHANGED <<sysVars, tableVars, chainVars, nomdat, openVars, parseVars, syncVars, statVars, dlVars, r_i_read, r_eof,
                   r_dl, out, liveVars, errVars>>

\* lines 1652-1668: what Peek returns for the head chunk c read as v
PeekResult(c, v, n) ==
    IF ~v.failed /\ v.data # NULL
    THEN [kind |-> "mdat", chunk |-> c, off |-> v.mdat_pos,
          len |-> Min(n, v.mdat_len - v.mdat_pos), n |-> n]
    ELSE [kind |-> "none", chunk |-> NULL, off |-> 0, len |-> 0, n |-> n]

\* lines 1652-1668
P_Return ==
    /\ fault = "none" /\ r_pc = "peek"
    /\ r_pc' = "idle"
    /\ uaf' = Touch("reader", r_chunk)
    /\ peek_prev' = peek_last
    /\ IF r_chunk = NULL
       THEN peek_last' = [kind |-> "none", chunk |-> NULL, off |-> 0, len |-> 0,
                          n |-> i_peek]
       ELSE \E v \in View(r_chunk) : peek_last' = PeekResult(r_chunk, v, i_peek)
    /\ UNCHANGED <<sysVars, tableVars, chainVars, nomdat, openVars, parseVars, syncVars, statVars, dlVars, r_i_read, r_eof,
                   r_chunk, r_dl, out, i_peek, liveVars, fault>>

R_Read == R_ReadOf(ReadSizes)

\* Read's loop and read_chunk_data
ReadBody == R_Loop \/ R_Entry \/ R_Iter \/ R_Post

Reader == R_Read \/ ReadBody

Peek == P_Peek \/ P_Return

-----------------------------------------------------------------------------
(* LivePoller: live_thread and maintain_live_chunks *)

\* line 1048: the test of closed; lines 1050-1067: the bootstrap is fetched; a
\* fetch that fails leaves the tables as they are
L_Poll ==
    /\ fault = "none" /\ l_pc = "poll"
    /\ IF closed
       THEN l_pc' = "done" /\ UNCHANGED <<l_polls, fault>>
       ELSE /\ l_polls < MaxPolls
            /\ l_polls' = l_polls + 1
            /\ \/ l_pc' = "parse" /\ UNCHANGED fault
               \* line 1082 divides by afrt_timescale
               \/ /\ fault' = IF afrt_timescale = 0 THEN "sigfpe" ELSE fault
                  /\ l_pc' = "poll"
    /\ UNCHANGED <<sysVars, tableVars, chainVars, nomdat, openVars, parseVars, syncVars, statVars,
                   dlVars, readVars, peekVars, l_chunk, l_dl, uaf>>

\* what a thread that locks a destroyed mutex or signals a destroyed condition
\* variable can meet: nothing, or the abort of vlc_mutex_lock's check
AfterLockUse(f) == IF locks_destroyed THEN {f, "abort"} ELSE {f}

\* lines 1070-1073: the bootstrap is parsed under abst_lock; it gives one of
\* times as the current media time
L_ParseOf(times) ==
    /\ fault = "none" /\ l_pc = "parse"
    /\ timescale' = 1000 /\ afrt_timescale' = 500
    /\ live_current_time' \in times
    /\ segment_runs' = <<SegmentRun(1, 4)>>
    /\ fragment_runs' = LiveFragmentRuns
    /\ l_pc' = "maintain"
    /\ fault' \in AfterLockUse(fault)
    /\ UNCHANGED <<sysVars, chainVars, nomdat, openVars, parseVars, syncVars, statVars, dlVars,
                   readVars, peekVars, l_chunk, l_polls, l_dl, uaf>>

\* the server's clock advances from one poll to the next
L_Parse == L_ParseOf({LiveCurrentTime(l_polls)})

\* the current media times of a server whose clock is set back or forth
\* between polls
PolledTimes == {0, 2000, 4000}

L_ParseAny == L_ParseOf(PolledTimes)

\* the same for a chunk that starts before live_current_time only
StartsBeforeNowStrict(c) ==
    (c.timestamp * timescale) \div afrt_timescale < live_current_time

\* line 979: the chunk starts at or before live_current_time
StartsBeforeNow(c) ==
    (c.timestamp * timescale) \div afrt_timescale <= live_current_time

\* lines 977-993: the chain is extended from chunk c on
RECURSIVE Extend(_, _, _)
Extend(cs, c, dl) ==
    IF c # NULL /\ StartsBeforeNow(cs[c])
    THEN IF cs[c].next # NULL
         THEN Extend(cs, cs[c].next, dl)
         ELSE LET n == NewChunkAfter(cs[c])
              IN IF n = NoChunk
                 THEN [chunks |-> cs, dl |-> TRUE]
                 ELSE Extend(Append([cs EXCEPT ![c].next = Len(cs) + 1], n),
                             Len(cs) + 1, TRUE)
    ELSE [chunks |-> cs, dl |-> dl]

\* lines 966-996 of maintain_live_chunks
L_Maintain ==
    /\ fault = "none" /\ l_pc = "maintain"
    /\ LET first == NewChunkAfter(NoChunk)
           cs0   == IF chunks_head = NULL /\ first # NoChunk
                    THEN Append(chunks, first) ELSE chunks
           head  == IF chunks_head = NULL
                    THEN (IF first # NoChunk THEN Len(cs0) ELSE NULL)
                    ELSE chunks_head
           r     == Extend(cs0, head, FALSE)
       IN /\ chunks' = r.chunks
          /\ chunks_head' = head
          /\ chunks_livereadpos' = IF chunks_head = NULL THEN head
                                   ELSE chunks_livereadpos
          /\ d_pc' = IF r.dl THEN Signalled(d_pc) ELSE d_pc
          /\ dl_lock' = IF r.dl THEN Woken(d_pc, dl_lock) ELSE dl_lock
          /\ fault' \in IF r.dl THEN AfterLockUse(fault) ELSE {fault}
          /\ l_chunk' = head
          /\ l_dl' = r.dl
    /\ l_pc' = "gc"
    /\ UNCHANGED <<sysVars, tableVars, chunks_downloadpos, nomdat, openVars, parseVars,
                   locks_destroyed, c_pc, statVars, d_chunk, d_data, readVars,
                   peekVars, l_polls, uaf>>

\* the same without the test of the successor
CollectableAtTail(c) == c.data # NULL /\ c.mdat_pos >= c.mdat_len

\* line 999: the chunk can be dropped
Collectable(c) == c.data # NULL /\ c.mdat_pos >= c.mdat_len /\ c.next # NULL

\* lines 998-1004: chunks are freed from c on; yields the arena and the chunk
\* the loop stops at
RECURSIVE Collect(_, _)
Collect(cs, c) ==
    IF c # NULL /\ Collectable(cs[c])
    THEN Collect([cs EXCEPT ![c] = FreedChunk(cs[c])], cs[c].next)
    ELSE [chunks |-> cs, chunk |-> c]

\* lines 998-1004
L_Gc ==
    /\ fault = "none" /\ l_pc = "gc"
    /\ LET r == Collect(chunks, l_chunk)
       IN chunks' = r.chunks /\ l_chunk' = r.chunk
    /\ l_pc' = "sethead"
    /\ UNCHANGED l_dl
    /\ UNCHANGED <<sysVars, tableVars, chunks_head, chunks_livereadpos,
                   chunks_downloadpos, nomdat, openVars, parseVars, syncVars, statVars, dlVars, readVars, peekVars,
                   l_polls, errVars>>

\* lines 1006-1009, then the sleep of line 1082
L_SetHead ==
    /\ fault = "none" /\ l_pc = "sethead"
    /\ chunks_livereadpos' = IF chunks_livereadpos = NULL THEN chunks_head
                             ELSE chunks_livereadpos
    /\ chunks_head' = l_chunk
    /\ l_dl' = FALSE
    /\ l_pc' = "poll"
    /\ UNCHANGED <<sysVars, tableVars, chunks, chunks_downloadpos, nomdat, openVars, parseVars, syncVars, statVars, dlVars,
                   readVars, peekVars, l_chunk, l_polls, errVars>>

LivePoller == L_Poll \/ L_Parse \/ L_Maintain \/ L_Gc \/ L_SetHead

-----------------------------------------------------------------------------
(* Close, called by the stream's consumer between two of its calls *)

\* line 1448
C_SetClosed ==
    /\ c_pc = "open" /\ r_pc = "idle"
    /\ closed' = TRUE
    /\ c_pc' = "signal"
    /\ UNCHANGED <<live, duration_seconds, flv_header_bytes_sent, tableVars,
                   chainVars, nomdat, openVars, parseVars, dl_lock, locks_destroyed, statVars,
                   dlVars, readVars, peekVars, liveVars, errVars>>

\* lines 1449-1450
C_Signal ==
    /\ c_pc = "signal"
    /\ d_pc' = Signalled(d_pc)
    /\ dl_lock' = Woken(d_pc, dl_lock)
    /\ c_pc' = "join_dl"
    /\ UNCHANGED <<sysVars, tableVars, chainVars, nomdat, openVars, parseVars, locks_destroyed,
                   statVars, d_chunk, d_data, readVars, peekVars, liveVars, errVars>>

\* line 1452: vlc_join returns once download_thread has returned
C_JoinDl ==
    /\ c_pc = "join_dl" /\ d_pc = "done"
    /\ c_pc' = "destroy"
    /\ UNCHANGED <<sysVars, tableVars, chainVars, nomdat, openVars, parseVars, dl_lock,
                   locks_destroyed, statVars, dlVars, readVars, peekVars, liveVars,
                   errVars>>

\* lines 1454-1459
C_Destroy ==
    /\ c_pc = "destroy"
    /\ locks_destroyed' = TRUE
    /\ c_pc' = IF live THEN "join_live" ELSE "cleanup"
    /\ UNCHANGED <<sysVars, tableVars, chainVars, nomdat, openVars, parseVars, dl_lock,
                   statVars, dlVars, readVars, peekVars, liveVars, errVars>>

\* lines 1461-1464: vlc_join returns once live_thread has returned
C_JoinLive ==
    /\ c_pc = "join_live" /\ l_pc = "done"
    /\ c_pc' = "cleanup"
    /\ UNCHANGED <<sysVars, tableVars, chainVars, nomdat, openVars, parseVars, dl_lock,
                   locks_destroyed, statVars, dlVars, readVars, peekVars, liveVars,
                   errVars>>

\* hds_free: every chunk of the chain from chunks_head on is freed
RECURSIVE FreeChain(_, _)
FreeChain(cs, c) ==
    IF c = NULL \/ cs[c].freed THEN cs
    ELSE FreeChain([cs EXCEPT ![c] = FreedChunk(cs[c])], cs[c].next)

\* lines 1466-1467
C_Cleanup ==
    /\ c_pc = "cleanup"
    /\ chunks' = FreeChain(chunks, chunks_head)
    /\ c_pc' = "closed"
    /\ UNCHANGED <<sysVars, tableVars, chunks_head, chunks_livereadpos,
                   chunks_downloadpos, nomdat, openVars, parseVars, dl_lock, locks_destroyed,
                   statVars, dlVars, readVars, peekVars, liveVars, errVars>>

Close == C_SetClosed \/ C_Signal \/ C_JoinDl \/ C_Destroy \/ C_JoinLive \/ C_Cleanup

\* The stream after Open, VOD or live, read with Read (Peek, which changes
\* nothing the other threads see, is added in SpecPeek)
Next == Downloader \/ Reader \/ LivePoller

Spec == Init /\ [][Next]_vars

\* A VOD stream after Open
InitVodStream == Init /\ ~live

\* its consumer splits its reads at any byte of the header
HeaderReadSizes == 0..(13 + MaxRead)

HeaderRead == R_ReadOf(HeaderReadSizes)

NextHeader == Downloader \/ HeaderRead \/ ReadBody

SpecHeader == InitVodStream /\ [][NextHeader]_vars

\* the same when a Read call that has started keeps running, whatever the
\* downloader does
SpecHeaderFair == SpecHeader /\ WF_vars(ReadBody)

\* A VOD stream whose consumer also peeks
NextPeek == Downloader \/ Reader \/ Peek

SpecPeek == InitVodStream /\ [][NextPeek]_vars

\* A VOD stream when every fetch succeeds
NextVodOk == DownloaderOk \/ Reader

SpecVodOk == InitVodStream /\ [][NextVodOk]_vars

\* A VOD stream of one fragment: its first chunk is the last one
OneFragmentStreams ==
    { [duration_seconds |-> 5, fragment_runs |-> <<FragmentRun(1, 0, 5000, 0)>>] }

InitOneFragment == InitVodOf(OneFragmentStreams) /\ Opened

NextVod == Downloader \/ Reader

SpecOneFragment == InitOneFragment /\ [][NextVod]_vars

\* The stream from Open to Close
NextClose == Downloader \/ Reader \/ LivePoller \/ Close

SpecClose == Init /\ [][NextClose]_vars

\* Close and the worker threads when every fetch succeeds; the consumer, which
\* must be out of Read when it calls Close, does not read
NextCloseOk == DownloaderOk \/ LivePoller \/ Close

SpecCloseOk == Init /\ [][NextCloseOk]_vars

\* The fragment index on its own, with one call of maintain_live_chunks
\* a live stream whose bootstrap may give any of PolledTimes at each poll and
\* whose consumer does not read
NextLive == Downloader \/ L_Poll \/ L_ParseAny \/ L_Maintain \/ L_Gc \/ L_SetHead

InitLiveStream == Init /\ live

SpecLive == InitLiveStream /\ [][NextLive]_vars

\* Open from the return of parse_Manifest on: the manifest was parsed and the
\* stream built, or parse_Manifest failed before it built one; no thread runs
InitOpen ==
    /\ (InitVod \/ InitLive)
    /\ o_pc = "manifest" /\ x_pc = "off"
    /\ manifest = [medias |-> << >>, bootstraps |-> << >>]
    /\ ManifestUnread
    /\ flv_header_bytes_sent = 0
    /\ closed = FALSE
    /\ chunks_livereadpos = NULL
    /\ chunks_downloadpos = NULL
    /\ nomdat \in {{}, {2}}
    /\ ParserOff
    /\ d_pc = "off" /\ d_chunk = NULL /\ d_data = NULL
    /\ r_pc = "off" /\ r_i_read = 0 /\ r_eof = FALSE /\ r_chunk = NULL
    /\ r_dl = FALSE /\ out = << >>
    /\ i_peek = 0 /\ peek_prev = NoPeek /\ peek_last = NoPeek
    /\ l_pc = "off"
    /\ l_chunk = NULL /\ l_polls = 0 /\ l_dl = FALSE
    /\ uaf = {} /\ fault = "none"
    /\ dl_lock = "none" /\ locks_destroyed = FALSE /\ c_pc = "open"
    /\ chunk_count = 0 /\ fetched = {}

\* lines 1408-1411: the result of parse_Manifest; it fails before any stream
\* is built
O_Manifest ==
    /\ o_pc = "manifest"
    /\ \/ o_pc' = "clone_dl"
       \/ chunks_head = NULL /\ o_pc' = "error"
    /\ UNCHANGED <<sysVars, tableVars, chainVars, threadVarsButOpen, manifestVars>>

\* lines 1417-1420: vlc_clone of download_thread, which takes dl_lock at line
\* 782 when it starts
O_CloneDl ==
    /\ o_pc = "clone_dl"
    /\ \/ /\ d_pc' = "top" /\ dl_lock' = "downloader"
          /\ o_pc' = IF live THEN "clone_live" ELSE "ok"
       \/ o_pc' = "error" /\ UNCHANGED <<d_pc, dl_lock>>
    /\ UNCHANGED <<sysVars, tableVars, chainVars, nomdat, parseVars, d_chunk, d_data,
                   readVars, peekVars, liveVars, errVars, locks_destroyed, c_pc,
                   statVars, manifestVars>>

\* lines 1422-1429: vlc_clone of live_thread
O_CloneLive ==
    /\ o_pc = "clone_live"
    /\ \/ l_pc' = "poll" /\ o_pc' = "ok"
       \/ o_pc' = "error" /\ UNCHANGED l_pc
    /\ UNCHANGED <<sysVars, tableVars, chainVars, nomdat, parseVars, dlVars, readVars,
                   peekVars, l_chunk, l_polls, l_dl, errVars, syncVars, statVars,
                   manifestVars>>

\* lines 1433-1436: SysCleanup frees the streams and their chunks, p_sys is
\* freed, Open returns VLC_EGENERIC
O_Error ==
    /\ o_pc = "error"
    /\ chunks' = FreeChain(chunks, chunks_head)
    /\ o_pc' = "failed"
    /\ UNCHANGED <<sysVars, tableVars, chunks_head, chunks_livereadpos,
                   chunks_downloadpos, threadVarsButOpen, manifestVars>>

Open == O_Manifest \/ O_CloneDl \/ O_CloneLive \/ O_Error

\* Open and the threads it starts; the consumer does not read
NextOpen == Open \/ Downloader \/ LivePoller

SpecOpen == InitOpen /\ [][NextOpen]_vars

NextIndex == IndexFirst \/ IndexNext \/ L_Maintain

SpecIndex == InitIndex /\ [][NextIndex]_vars

\* The bootstrap parser on its own: a stream as calloc leaves it, parsing one blob
InitParse ==
    /\ Idle /\ l_pc = "off" /\ OpenDone
    /\ live = TRUE /\ duration_seconds = 0
    /\ flv_header_bytes_sent = 0 /\ closed = FALSE
    /\ timescale = 0 /\ afrt_timescale = 0 /\ live_current_time = 0
    /\ segment_runs = << >> /\ fragment_runs = << >>
    /\ chunks = << >> /\ chunks_head = NULL
    /\ chunks_livereadpos = NULL /\ chunks_downloadpos = NULL
    /\ blob \in Blobs
    /\ b_pc = "abst" /\ data_p = 0 /\ asrt_count = 0 /\ afrt_count = 0
    /\ past_end = FALSE /\ null_read = FALSE

NextParse == B_Abst \/ B_Asrt \/ B_AfrtCount \/ B_Afrt

SpecParse == InitParse /\ [][NextParse]_vars

-----------------------------------------------------------------------------
(* The mdat locator on its own: find_chunk_mdat on one fragment buffer, one  *)
(* turn of its loop in two steps.  The buffer is blob, the cursor chunkdata  *)
(* is data_p.                                                                *)

\* the number of boxes a fragment buffer of the model is made of, at most
MaxBoxes == 3

\* a box as it is on the wire: the size field, the tag, the payload
RawBox(size, tag, payload) == U32Bytes(size) \o tag \o payload

\* a box in the 64-bit form: size field 1, the tag, the 64-bit size
WideBox(size, tag, payload) == U32Bytes(1) \o tag \o U64Bytes(size) \o payload

\* the boxes a server can send: well formed ones, boxes whose declared size is
\* below the size of their own header, and a 64-bit box that is cut short
ServerBoxes ==
    { Box(TagMoof, << >>), Box(TagMoof, <<1, 2, 3, 4>>), Box(TagMdat, <<17>>),
      RawBox(0, TagMoof, << >>), RawBox(4, TagMoof, << >>),
      RawBox(0, TagMdat, << >>),
      WideBox(16, TagMoof, << >>), WideBox(17, TagMdat, <<18>>),
      WideBox(0, TagMoof, << >>), WideBox(8, TagMoof, << >>),
      U32Bytes(1) \o TagMoof \o <<0, 0>> }

\* the buffers made of at most n boxes
RECURSIVE BoxSeqs(_)
BoxSeqs(n) ==
    IF n = 0 THEN {<< >>}
    ELSE BoxSeqs(n - 1) \cup { x \o y : x \in BoxSeqs(n - 1), y \in ServerBoxes }

MdatBuffers == BoxSeqs(MaxBoxes)

InitMdat ==
    /\ Idle /\ l_pc = "off" /\ OpenDone
    /\ live = FALSE /\ duration_seconds = 0
    /\ flv_header_bytes_sent = 0 /\ closed = FALSE
    /\ timescale = 0 /\ afrt_timescale = 0 /\ live_current_time = 0
    /\ segment_runs = << >> /\ fragment_runs = << >>
    /\ chunks = << >> /\ chunks_head = NULL
    /\ chunks_livereadpos = NULL /\ chunks_downloadpos = NULL
    /\ blob \in MdatBuffers
    /\ b_pc = "mdat" /\ data_p = 0 /\ asrt_count = 0 /\ afrt_count = 0
    /\ past_end = FALSE /\ null_read = FALSE

\* lines 634-646: the top of the loop; with fewer than 8 bytes left the
\* locator stores a null mdatptr and returns 0, else it reads boxsize and
\* boxname and steps over them
M_Header ==
    /\ b_pc = "mdat"
    /\ IF NoHeaderAt(blob, data_p)
       THEN b_pc' = "mdat_failed" /\ UNCHANGED data_p
       ELSE b_pc' = "mdat_box" /\ data_p' = data_p + 8
    /\ UNCHANGED <<sysVars, tableVars, chainVars, nomdat, openVars, blob, asrt_count,
                   afrt_count, past_end, null_read, dlVars, readVars, peekVars,
                   liveVars, errVars, syncVars, statVars>>

\* lines 648-673: the 64-bit size is read if boxsize is 1, the cursor is moved
\* by the box size, and the loop is left if the box is the mdat box
M_Box ==
    /\ b_pc = "mdat_box"
    /\ LET x == MdatBox(blob, data_p - 8)
       IN /\ b_pc' = CASE x.kind = "fail"  -> "mdat_failed"
                       [] x.kind = "found" -> "mdat_found"
                       [] OTHER            -> "mdat"
          /\ data_p' = x.pos
    /\ UNCHANGED <<sysVars, tableVars, chainVars, nomdat, openVars, blob, asrt_count,
                   afrt_count, past_end, null_read, dlVars, readVars, peekVars,
                   liveVars, errVars, syncVars, statVars>>

NextMdat == M_Header \/ M_Box

SpecMdat == InitMdat /\ [][NextMdat]_vars

-----------------------------------------------------------------------------
(* The manifest parser on its own: parse_Manifest on one manifest of a live  *)
(* stream.  The manifest is its bootstrapInfo elements and its media         *)
(* elements, each with the id it refers to a bootstrap by (or NoId); every   *)
(* bootstrapInfo has a url.                                                  *)

\* the number of bootstrapInfo elements, and of media elements, at most
MaxElements == 11

IdPatterns == {"absent", "same", "alternate"}

\* the id of the j-th element of its kind
IdPattern(p, j) ==
    CASE p = "absent" -> NoId
      [] p = "same"   -> "a"
      [] OTHER        -> IF j % 2 = 1 THEN NoId ELSE "a"

Ids(n, p) == [j \in 1..n |-> IdPattern(p, j)]

Manifests ==
    { [medias |-> Ids(m, p), bootstraps |-> Ids(k, q)] :
         m \in 0..MaxElements, p \in IdPatterns,
         k \in 0..MaxElements, q \in IdPatterns }

\* the elements in document order: the bootstrapInfo elements, then the media
\* elements; ord is the element's rank among those of its tag
Elements(mf) ==
    [j \in 1..Len(mf.bootstraps) |->
        [tag |-> "bootstrapInfo", id |-> mf.bootstraps[j], ord |-> j]]
    \o [i \in 1..Len(mf.medias) |->
        [tag |-> "media", id |-> mf.medias[i], ord |-> i]]

InitManifest ==
    /\ Idle /\ ParserOff /\ l_pc = "off"
    /\ live = TRUE /\ duration_seconds = 0
    /\ flv_header_bytes_sent = 0 /\ closed = FALSE
    /\ timescale = 0 /\ afrt_timescale = 0 /\ live_current_time = 0
    /\ segment_runs = << >> /\ fragment_runs = << >>
    /\ chunks = << >> /\ chunks_head = NULL
    /\ chunks_livereadpos = NULL /\ chunks_downloadpos = NULL
    /\ o_pc = "manifest" /\ x_pc = "read"
    /\ manifest \in Manifests
    /\ ManifestUnread

\* lines 1145-1252 for one element, from its STARTELEM node to its ENDELEM
\* node: a media element fills medias[media_idx] (lines 1176-1201), or ends
\* parse_Manifest when ten are stored; a bootstrapInfo element fills
\* bootstraps[bootstrap_idx] (lines 1203-1220) and is counted when it ends
\* (lines 1157-1163)
X_Element ==
    /\ x_pc = "read" /\ x_pos < Len(Elements(manifest))
    /\ LET e == Elements(manifest)[x_pos + 1]
       IN IF e.tag = "media"
          THEN /\ IF media_idx = MAX_MEDIA_ELEMENTS
                  THEN x_pc' = "error" /\ UNCHANGED <<medias, media_idx>>
                  ELSE /\ medias' = [medias EXCEPT ![media_idx + 1] = e.id]
                       /\ media_idx' = media_idx + 1
                       /\ x_pc' = "read"
               /\ UNCHANGED <<bootstraps, bootstrap_idx>>
          ELSE /\ bootstraps' =
                     [bootstraps EXCEPT ![bootstrap_idx + 1] =
                         [id  |-> IF e.id # NoId THEN e.id ELSE @.id,
                          src |-> e.ord]]
               /\ bootstrap_idx' = IF bootstrap_idx + 1 = MAX_BOOTSTRAP_INFO
                                    THEN bootstrap_idx ELSE bootstrap_idx + 1
               /\ x_pc' = "read"
               /\ UNCHANGED <<medias, media_idx>>
    /\ x_pos' = x_pos + 1
    /\ UNCHANGED <<sysVars, tableVars, chainVars, threadVarsButOpen, o_pc, manifest,
                   x_i, hds_streams>>

\* lines 1145 and 1254-1257: no node is left, the matching loop starts
X_EndOfInput ==
    /\ x_pc = "read" /\ x_pos = Len(Elements(manifest))
    /\ x_pc' = "match" /\ x_i' = 0
    /\ UNCHANGED <<sysVars, tableVars, chainVars, threadVarsButOpen, o_pc, manifest,
                   x_pos, media_idx, bootstrap_idx, medias, bootstraps, hds_streams>>

\* lines 1261-1263
IdsMatch(mid, bid) ==
    (mid = NoId /\ bid = NoId) \/ (mid # NoId /\ bid # NoId /\ mid = bid)

\* a pointer read from beyond the array: it compares equal to no id
GarbageId == "garbage"

\* what medias[i].bootstrap_id reads as; medias[MAX_MEDIA_ELEMENTS] is past
\* the end of the array
MediaSlot(i) ==
    IF i < MAX_MEDIA_ELEMENTS THEN {medias[i + 1]} ELSE {NoId, GarbageId}

\* lines 1259-1320 for the media slot i, read as mid: the streams created, each
\* as <<i, j>>, from bootstrap slot j on
RECURSIVE StreamsOf(_, _, _)
StreamsOf(mid, i, j) ==
    IF j >= bootstrap_idx THEN << >>
    ELSE (IF IdsMatch(mid, bootstraps[j + 1].id) THEN << <<i, j>> >> ELSE << >>)
         \o StreamsOf(mid, i, j + 1)

\* the bound of the outer loop, line 1257
LastMediaSlot == media_idx

\* lines 1257-1321: one turn of the outer loop of the matching
X_Match ==
    /\ x_pc = "match"
    /\ IF x_i > LastMediaSlot
       THEN x_pc' = "done" /\ UNCHANGED <<x_i, hds_streams>>
       ELSE /\ \E mid \in MediaSlot(x_i) :
                  hds_streams' = hds_streams \o StreamsOf(mid, x_i, 0)
            /\ x_i' = x_i + 1
            /\ x_pc' = "match"
    /\ UNCHANGED <<sysVars, tableVars, chainVars, threadVarsButOpen, o_pc, manifest,
                   x_pos, media_idx, bootstrap_idx, medias, bootstraps>>

NextManifest == X_Element \/ X_EndOfInput \/ X_Match

SpecManifest == InitManifest /\ [][NextManifest]_vars

-----------------------------------------------------------------------------
(* Properties of the fragment index, under SpecIndex *)

\* the chunks of the arena that are still linked to a successor
Linked == { i \in 1..Len(chunks) : chunks[i].next # NULL }

\* a zero-duration entry lies strictly between the fragment runs that resolved
\* chunks c and n
MarkerBetween(c, n) ==
    \E k \in (c.frun_entry + 1)..(n.frun_entry - 1) :
        fragment_runs[k + 1].fragment_duration = 0

\* C6: for every chunk c and its successor c.next produced by the fragment index,
\* in VOD and in live mode, frag_num and timestamp both increase strictly unless
\* a discontinuity entry lies between the runs that resolved the two chunks; in
\* live mode with a discontinuity marker the same chunk is never yielded twice.
C6_IndexMonotone ==
    \A i \in Linked :
        LET c == chunks[i]
            n == chunks[c.next]
        IN \/ (n.frag_num > c.frag_num /\ n.timestamp > c.timestamp)
           \/ MarkerBetween(c, n)

\* the segment of fragment f under a single segment run, its fragments numbered
\* from 1: each segment holds fragments_per_segment consecutive fragments
SingleRunSegment(run, f) ==
    run.first_segment + ((f - 1) \div run.fragments_per_segment)

\* C7: every generated chunk's seg_num is the segment the segment-run table
\* assigns to its frag_num; with the single run {first_segment = 1,
\* fragments_per_segment = 4} that is 1 + (frag_num - 1) / 4.
C7_SegNumMatchesTable ==
    \A i \in 1..Len(chunks) :
        (Len(segment_runs) = 1 /\ Len(fragment_runs) = 1)
            => chunks[i].seg_num = SingleRunSegment(segment_runs[1], chunks[i].frag_num)

-----------------------------------------------------------------------------
(* Properties of the byte stream, under Spec, SpecHeader(Fair), SpecPeek *)

\* the bytes returned after the 13 header bytes
PayloadOut == IF Len(out) > 13 THEN SubSeq(out, 14, Len(out)) ELSE << >>

\* b is a byte of the mdat payload of a fragment of the arena, or a byte the
\* reader copied from memory it does not own
IsMdatByte(b) ==
    \/ b = GarbageByte
    \/ \E c \in 1..Len(chunks) :
          \E k \in 1..PayloadLen(chunks[c].frag_num) :
              b = Payload(chunks[c].frag_num)[k]

\* C1: for every split of the reads into request sizes, the first 13 bytes
\* returned are the FLV header, each header byte once and in order, and no mdat
\* byte is returned before the 13th header byte.
C1_HeaderFirst ==
    /\ flv_header_bytes_sent = Min(Len(out), 13)
    /\ \A i \in 1..Len(out) :
          IF i <= 13 THEN out[i] = flv_header[i] ELSE IsMdatByte(out[i])

\* payload has been returned after the whole header
C1_Witness ==
    /\ Len(out) > 13
    /\ r_pc = "idle"
    /\ flv_header_bytes_sent = 13

\* the mdat payloads of the chunks i, i + 1, ... of the arena (the order the
\* chain is built in), up to but not including the first chunk with eof set
RECURSIVE PayloadsBeforeEof(_)
PayloadsBeforeEof(i) ==
    IF i > Len(chunks) \/ chunks[i].eof THEN << >>
    ELSE Payload(chunks[i].frag_num) \o PayloadsBeforeEof(i + 1)

\* s is a prefix of t
IsPrefix(s, t) == Len(s) <= Len(t) /\ s = SubSeq(t, 1, Len(s))

\* C2: after the header, the bytes returned are the concatenation of the mdat
\* payloads of the chunks in chain order, nothing skipped, repeated or
\* reordered, up to but not including the payload of a chunk with eof set, in
\* every interleaving of reader, downloader and live poller.
C2_Concatenation == IsPrefix(PayloadOut, PayloadsBeforeEof(1))

\* a Read call is in progress and the head chunk is absent or has no data
ReadStarved ==
    /\ r_pc # "idle"
    /\ ~r_eof
    /\ (chunks_head = NULL \/ chunks[chunks_head].data = NULL)

\* C3: a Read call issued when the head chunk is absent or has no downloaded
\* data, eof not reached, returns with the bytes copied so far without waiting
\* for the downloader: it returns even if the downloader never takes a step
\* (a run that ends in a fatal signal is not held against the claim).
C3_ReadReturns == ReadStarved ~> (r_pc = "idle" \/ fault # "none")

\* C4: two back-to-back Peek calls with the same n and no Read between them
\* return the same pointer (chunk and offset, or header offset) and length,
\* whatever the downloader does between the two calls.
C4_PeekIdempotent ==
    (peek_prev # NoPeek /\ peek_last # NoPeek /\ peek_prev.n = peek_last.n)
        => peek_prev = peek_last

\* the durations of the chunks of the chain from c on, added up
RECURSIVE ChainDuration(_)
ChainDuration(c) ==
    IF c = NULL THEN 0 ELSE chunks[c].duration + ChainDuration(chunks[c].next)

\* the chain from c on has a chunk with eof set
RECURSIVE ChainHasEof(_)
ChainHasEof(c) == c # NULL /\ (chunks[c].eof \/ ChainHasEof(chunks[c].next))

\* C5: in VOD mode, after every Read that returned at least one byte, the chain
\* has a chunk with eof set or the durations from head to tail add up to at
\* least download_leadtime * afrt_timescale, for every fragment duration.
C5_LeadTime ==
    (~live /\ r_pc = "idle" /\ Len(out) > 0)
        => \/ ChainHasEof(chunks_head)
           \/ ChainDuration(chunks_head) >= download_leadtime * afrt_timescale

\* C9: a chunk whose data becomes non-null, hence as the reader first sees it,
\* has mdat_pos = 0, a non-null mdat_data inside [data, data + data_len] and
\* mdat_len <= data_len - (mdat_data - data), also for a fragment without mdat.
C9_MdatConsistent ==
    [][\A c \in 1..Len(chunks) :
          (~chunks[c].freed /\ chunks[c].data = NULL /\ chunks'[c].data # NULL)
              => /\ chunks'[c].mdat_pos = 0
                 /\ chunks'[c].mdat_data # NULL_PTR
                 /\ chunks'[c].mdat_data \in 0..chunks'[c].data_len
                 /\ chunks'[c].mdat_len
                        <= chunks'[c].data_len - chunks'[c].mdat_data]_vars

\* C10: in live mode chunks_livereadpos is null or references a chunk that has
\* not been freed.
C10_LiveReadPosValid ==
    live => \/ chunks_livereadpos = NULL
            \/ ~chunks[chunks_livereadpos].freed

-----------------------------------------------------------------------------
(* Properties of the bootstrap parser, under SpecParse *)

\* C8: for every bootstrap blob of bounded length, truncated ones and ones with
\* a rejected asrt or afrt included, every byte the parser reads lies inside
\* [data, data_end): it never reads at or beyond data_end and never through the
\* null cursor a failed sub-box parse returns.
C8_ParserInBounds == ~past_end /\ ~null_read

-----------------------------------------------------------------------------
(* Properties of locking and teardown, under Spec and SpecClose *)

\* C11: the downloader holds neither dl_lock nor any other lock while the
\* blocking fetch of a fragment is in progress: it gives dl_lock up before the
\* fetch and takes it again before it assigns the chunk's data and advances
\* downloadpos.
C11_FetchUnlocked == (d_pc = "fetch") => dl_lock # "downloader"

\* the threads of a stream
Threads == {"reader", "downloader", "live"}

\* thread t is at a step that reads or writes the chain: the head, a cursor, a
\* chunk's next pointer or its data and mdat fields
AccessesChain(t) ==
    CASE t = "downloader" -> d_pc \in {"top", "scan", "inner", "fetch", "publish"}
      [] t = "reader" -> r_pc \in {"rcd", "iter", "post", "peek"}
      [] t = "live" -> l_pc \in {"maintain", "gc", "sethead"}

\* C12: every read or write of the chain state by the reader, the downloader or
\* the live poller happens while that thread holds dl_lock, so no two threads
\* access the chain at the same time.
C12_ChainUnderLock == \A t \in Threads : AccessesChain(t) => dl_lock = t

\* C13: Close sets closed, signals dl_cond, joins the downloader, joins the live
\* poller when the stream is live, and only then destroys dl_lock, dl_cond and
\* abst_lock: no lock is destroyed while a worker thread that may still use it
\* is running.
C13_CloseOrder ==
    locks_destroyed => (d_pc = "done" /\ (live => l_pc = "done"))

-----------------------------------------------------------------------------
(* Properties of the downloader's failures, under Spec *)

\* the chunk the reader stands at: the head in VOD, chunks_livereadpos in live
ReaderPos(h, l) == IF live THEN l ELSE h

\* chunk c of the arena cs is one whose fetch came short: failed is set, there
\* is no data and data_len is the number of bytes that arrived
FailedChunk(cs, c) ==
    /\ c # NULL /\ ~cs[c].freed /\ cs[c].failed /\ cs[c].data = NULL
    /\ cs[c].data_len = Len(FragmentBytes(cs[c].frag_num)) - 1

\* C14: when a fetch delivers fewer bytes than the size reported, the chunk's
\* failed flag is set, its data stays null and the reader skips the chunk: a
\* call of read_chunk_data that still has bytes to deliver does not return
\* standing at a failed chunk, it goes on to the next chunk of the chain.
C14_FailedSkipped ==
    [][(r_pc = "post" /\ r_pc' = "loop" /\ r_i_read > 0)
          => ~FailedChunk(chunks', ReaderPos(chunks_head', chunks_livereadpos'))]_vars

-----------------------------------------------------------------------------
(* More properties of the fragment index, under SpecIndex: in SpecIndex the  *)
(* k-th chunk of the chain is chunk k of the arena                           *)

\* the fragment run {1, 0, 2500} on a 10 second stream with afrt_timescale 1000
QuarterRuns ==
    /\ ~live /\ duration_seconds = 10 /\ afrt_timescale = 1000
    /\ fragment_runs = <<FragmentRun(1, 0, 2500, 0)>>

\* C15: in VOD with a single fragment run {s, t0, d} the k-th chunk of the chain
\* has frag_num s + k - 1, timestamp t0 + (k - 1) * d, duration d, and eof set
\* exactly when (timestamp + duration) / afrt_timescale >= duration_seconds;
\* for duration 10, afrt_timescale 1000 and the run {1, 0, 2500} the first chunk
\* is (frag 1, seg 1, ts 0, dur 2500, eof false), chunks 1..3 have eof false
\* and the fourth is (frag 4, seg 1, ts 7500, eof true).
C15_SingleRunChain ==
    /\ (~live /\ Len(fragment_runs) = 1) =>
          \A k \in 1..Len(chunks) :
              LET r == fragment_runs[1]
                  c == chunks[k]
              IN /\ c.frag_num = r.fragment_number_start + k - 1
                 /\ c.timestamp = r.fragment_timestamp + (k - 1) * r.fragment_duration
                 /\ c.duration = r.fragment_duration
                 /\ c.eof <=> ((c.timestamp + c.duration) \div afrt_timescale
                                  >= duration_seconds)
    /\ QuarterRuns =>
          /\ \A k \in 1..Len(chunks) : k <= 3 => ~chunks[k].eof
          /\ Len(chunks) >= 1 =>
                /\ chunks[1].frag_num = 1 /\ chunks[1].seg_num = 1
                /\ chunks[1].timestamp = 0 /\ chunks[1].duration = 2500
          /\ Len(chunks) >= 4 =>
                /\ chunks[4].frag_num = 4 /\ chunks[4].seg_num = 1
                /\ chunks[4].timestamp = 7500 /\ chunks[4].eof

\* the index has produced the fourth chunk of the 10 second stream
C15_Witness == QuarterRuns /\ Len(chunks) >= 4 /\ chunks[4].eof

\* VOD with the runs {1, 0, 2000}, a zero-duration marker, {10, 50000, 2000}
HasMarkerRuns ==
    /\ ~live /\ Len(fragment_runs) = 3
    /\ fragment_runs[1] = FragmentRun(1, 0, 2000, 0)
    /\ fragment_runs[2].fragment_duration = 0
    /\ fragment_runs[3] = FragmentRun(10, 50000, 2000, 0)

\* the marker entry's fragment_number_start
MarkerStart == fragment_runs[2].fragment_number_start

\* chunk c is (frag f, ts t, dur d)
IsChunk(c, f, t, d) == c.frag_num = f /\ c.timestamp = t /\ c.duration = d

\* C17 as claimed: in VOD with the runs [{1, 0, 2000}, a zero-duration marker,
\* {10, 50000, 2000}] the chunk generated after (frag 1, ts 0, dur 2000) is
\* (frag 10, ts 50000, dur 2000) whatever fragment_number_start the marker
\* carries, and the chunk after that is (frag 11, ts 52000, dur 2000).
C17_SkipsMarker ==
    HasMarkerRuns =>
        \A i \in Linked :
            LET c == chunks[i]
                n == chunks[c.next]
            IN IsChunk(c, 1, 0, 2000)
                 => /\ IsChunk(n, 10, 50000, 2000)
                    /\ n.next # NULL => IsChunk(chunks[n.next], 11, 52000, 2000)

\* C17 as amended: the chunk generated after (frag 1, ts 0, dur 2000) is
\* (frag 10, ts 50000, dur 2000) when the marker's fragment_number_start is 2;
\* when it is m > 2 the first run yields the fragments up to m - 1 first and
\* (frag 10, ts 50000, dur 2000) follows fragment m - 1; the chunk after
\* (frag 10, ts 50000, dur 2000) is (frag 11, ts 52000, dur 2000).
C17_SkipsMarkerAtStart ==
    HasMarkerRuns =>
        \A i \in Linked :
            LET c == chunks[i]
                n == chunks[c.next]
                m == MarkerStart
            IN /\ (m >= 2 /\ IsChunk(c, m - 1, (m - 2) * 2000, 2000))
                    => IsChunk(n, 10, 50000, 2000)
               /\ (m > 2 /\ c.frag_num < m - 1)
                    => IsChunk(n, c.frag_num + 1, c.timestamp + 2000, 2000)
               /\ IsChunk(c, 10, 50000, 2000) => IsChunk(n, 11, 52000, 2000)

\* the index has gone from fragment 1 over the marker to fragments 10 and 11
C17_Witness ==
    /\ HasMarkerRuns /\ MarkerStart = 2 /\ Len(chunks) >= 3
    /\ IsChunk(chunks[1], 1, 0, 2000)
    /\ IsChunk(chunks[2], 10, 50000, 2000)
    /\ IsChunk(chunks[3], 11, 52000, 2000)

\* the start of chunk c on the clock of live_current_time
StartOnClock(c) == (c.timestamp * timescale) \div afrt_timescale

\* the chunks maintain_live_chunks has added in this step, the chain's first
\* chunk included
Appended == (Len(chunks) + 1)..Len(chunks')

\* a step of maintain_live_chunks that adds chunks to the chain
MaintainAppends == l_pc = "maintain" /\ l_pc' = "gc" /\ Appended # {}

\* a live stream with timescale 1000, afrt_timescale 500, live_current_time
\* 10000 and the fragment run {1, 0, 500}
HalfSecondRuns ==
    /\ live /\ timescale = 1000 /\ afrt_timescale = 500
    /\ live_current_time = 10000
    /\ fragment_runs = <<FragmentRun(1, 0, 500, 0)>>

\* C18 as claimed: after a live-poll cycle the last chunk appended to the chain
\* by maintain_live_chunks satisfies timestamp * timescale / afrt_timescale
\* <= live_current_time; with timescale 1000, afrt_timescale 500,
\* live_current_time 10000 and the run {1, 0, 500} its timestamp is <= 5000.
C18_LastAppendedBeforeNow ==
    [][MaintainAppends
          => /\ StartOnClock(chunks'[Len(chunks')]) <= live_current_time
             /\ HalfSecondRuns => chunks'[Len(chunks')].timestamp <= 5000]_vars

\* C18 as amended: after a live-poll cycle in which maintain_live_chunks
\* appended chunks, the last chunk appended is the tail of the chain and starts
\* after live_current_time (timestamp * timescale / afrt_timescale >
\* live_current_time), and every other chunk appended, like the chunk the last
\* one was appended to, starts at or before live_current_time; with timescale
\* 1000, afrt_timescale 500, live_current_time 10000 and the run {1, 0, 500}
\* the last appended chunk has timestamp 5500 and its predecessor 5000.
C18_LastAppendedAfterNow ==
    [][MaintainAppends
          => LET t == Len(chunks')
             IN /\ chunks'[t].next = NULL
                /\ StartOnClock(chunks'[t]) > live_current_time
                /\ \A i \in 1..(t - 1) :
                      (i \in Appended \/ chunks'[i].next = t)
                         => StartOnClock(chunks'[i]) <= live_current_time
                /\ HalfSecondRuns
                     => /\ chunks'[t].timestamp = 5500
                        /\ \E i \in 1..(t - 1) :
                              chunks'[i].next = t /\ chunks'[i].timestamp = 5000]_vars

\* maintain_live_chunks has built the chain (5000, 5500) of the example
C18_Witness ==
    /\ HalfSecondRuns /\ l_pc = "gc" /\ chunks_livereadpos = 1
    /\ Len(chunks) = 2
    /\ chunks[1].timestamp = 5000 /\ chunks[1].next = 2
    /\ chunks[2].timestamp = 5500 /\ chunks[2].next = NULL

-----------------------------------------------------------------------------
(* Properties of the end of a VOD stream, under Spec *)

\* the frag_nums of the chunks with eof set
EofFrags == { chunks[i].frag_num : i \in { j \in 1..Len(chunks) : chunks[j].eof } }

\* C16: in VOD the fragments the downloader fetches are those of the chunks up
\* to and including the first chunk with eof set: no chunk after an eof chunk
\* is generated, appended or fetched, neither by the priming at open time nor
\* by the reader, so no fragment numbered beyond an eof chunk is requested.
C16_NothingAfterEof ==
    ~live => \A u \in fetched : \A f \in EofFrags : u[2] <= f

-----------------------------------------------------------------------------
(* Properties of a chunk's mdat fields and of oversize fragments, under Spec *)

\* C19: in every reachable state every chunk whose data is non-null satisfies
\* mdat_pos <= mdat_len <= data_len, and mdat_pos never decreases over the life
\* of the chunk.
C19_MdatBounds ==
    [][\A c \in 1..Len(chunks') :
          (~chunks'[c].freed /\ chunks'[c].data # NULL)
              => /\ chunks'[c].mdat_pos <= chunks'[c].mdat_len
                 /\ chunks'[c].mdat_len <= chunks'[c].data_len
                 /\ c <= Len(chunks) => chunks'[c].mdat_pos >= chunks[c].mdat_pos]_vars

\* the last fetch for chunk c of the arena cs reported a size above
\* MAX_REQUEST_SIZE (data_len holds the low 32 bits of that size)
OversizeFetched(cs, c) ==
    c # NULL /\ ~cs[c].freed /\ cs[c].data_len > MAX_REQUEST_SIZE

\* C20: when the fetched fragment reports a size greater than 50 MiB the chunk
\* is treated as failed: its failed flag is set, no data is published for it,
\* downloadpos is not advanced past it, chunk_count is not incremented, and
\* the downloader keeps running.
C20_OversizeFailed ==
    [][(d_pc = "publish" /\ d_pc' = "inner" /\ OversizeFetched(chunks, d_chunk))
          => /\ chunks[d_chunk].failed /\ chunks'[d_chunk].failed
             /\ chunks'[d_chunk].data = NULL
             /\ chunks_downloadpos' = chunks_downloadpos
             /\ chunk_count' = chunk_count
             /\ fault' = "none"]_vars

(* Properties of the reader's handling of the chain in VOD, under Spec *)

\* the step of read_chunk_data in which the reader frees the head chunk,
\* which is not eof and has no successor
DrainsLastChunk ==
    /\ ~live /\ r_pc = "iter"
    /\ r_chunk # NULL /\ r_chunk = chunks_head
    /\ ~chunks[r_chunk].freed /\ ~chunks[r_chunk].eof /\ chunks[r_chunk].next = NULL
    /\ chunks'[r_chunk].freed

\* C21: in VOD, when the reader fully drains a head chunk that is not eof and
\* has no successor, a successor is generated and, after the drained chunk is
\* freed, chunks_head is that successor (frag_num one higher): the chain is
\* never left empty before eof and the generated chunk is never lost.
C21_SuccessorKept ==
    [][DrainsLastChunk
          => /\ chunks_head' # NULL
             /\ chunks'[chunks_head'].frag_num = chunks[r_chunk].frag_num + 1]_vars

(* Properties of the downloader's position in the chain, under Spec *)

\* the downloader is about to act on a fetch of the chunk at d_chunk that
\* failed because the URL could not be opened or fewer bytes came than
\* announced (download_chunk returned NULL, the size was within the limit)
FetchFailed ==
    /\ d_pc = "publish" /\ d_pc' = "inner"
    /\ d_chunk # NULL /\ ~chunks[d_chunk].freed
    /\ d_data = NULL /\ chunks[d_chunk].data_len <= MAX_REQUEST_SIZE

\* C22: chunks_downloadpos moves to the next chunk only in a step where the
\* fetch of the current chunk succeeded and its data was published; when the
\* fetch fails (the stream cannot be opened, short read), downloadpos, the
\* chunk's data (null) and chunk_count are left unchanged.
C22_AdvanceOnSuccess ==
    [][/\ (chunks_downloadpos # NULL /\ chunks_downloadpos' # chunks_downloadpos)
            => /\ d_pc = "publish" /\ d_chunk = chunks_downloadpos
               /\ d_data # NULL
               /\ chunks'[d_chunk].data = d_data
               /\ chunks_downloadpos' = chunks[d_chunk].next
       /\ FetchFailed
            => /\ chunks_downloadpos' = chunks_downloadpos
               /\ chunks'[d_chunk].data = NULL
               /\ chunk_count' = chunk_count]_vars

\* the first chunk without data in the chain of the arena cs from chunk c on,
\* NULL when there is none
RECURSIVE FirstWithoutData(_, _)
FirstWithoutData(cs, c) ==
    IF c = NULL THEN NULL
    ELSE IF cs[c].data = NULL THEN c
    ELSE FirstWithoutData(cs, cs[c].next)

\* C23: whenever the downloader finds downloadpos null, it sets downloadpos to
\* the first chunk, in chain order starting at chunks_head, whose data is null;
\* if every chunk of the chain has data (or the chain is empty) downloadpos
\* stays null and the downloader waits on dl_cond without fetching anything.
C23_AdoptsFirstWithoutData ==
    [][/\ (d_pc = "scan" /\ d_pc' = "inner")
            => chunks_downloadpos' = FirstWithoutData(chunks, chunks_head)
       /\ (d_pc = "inner" /\ chunks_downloadpos = NULL /\ d_pc' # d_pc)
            => d_pc' = "wait" /\ fetched' = fetched]_vars

(* Properties of the live poller's maintenance of the chain, under Spec *)

\* the chunks freed in a step
Frees == { c \in 1..Len(chunks) : ~chunks[c].freed /\ chunks'[c].freed }

\* the step in which maintain_live_chunks runs its collection loop
GcStep == l_pc = "gc" /\ l_pc' = "sethead"

\* C24: the live poller's garbage collection frees a chunk only if that chunk
\* has data, has mdat_pos >= mdat_len and has a successor, and it frees chunks
\* only from the head in chain order; consequently a non-empty chain is never
\* emptied by the poller and no chunk with unread or undownloaded payload is
\* freed by it.
C24_GcFreesDrainedPrefix ==
    [][/\ GcStep
            => LET ch == Chain(chunks, chunks_head)
               IN /\ \A c \in Frees : /\ chunks[c].data # NULL
                                      /\ chunks[c].mdat_pos >= chunks[c].mdat_len
                                      /\ chunks[c].next # NULL
                  /\ IF ch = << >>
                     THEN Frees = {} /\ l_chunk' = NULL
                     ELSE \E k \in 0..(Len(ch) - 1) :
                             /\ Frees = { ch[i] : i \in 1..k }
                             /\ l_chunk' = ch[k + 1]
       /\ (l_pc = "sethead" /\ l_pc' = "poll" /\ chunks_head # NULL)
            => /\ chunks_head' # NULL
               /\ ~chunks'[chunks_head'].freed]_vars

\* the collection loop has just freed the head of a live chain
C24_Witness ==
    /\ live /\ l_pc = "sethead"
    /\ chunks_head # NULL /\ chunks[chunks_head].freed
    /\ l_chunk # NULL /\ ~chunks[l_chunk].freed

\* the step in which maintain_live_chunks returns and leaves a chain
MaintainReturns == l_pc = "sethead" /\ l_pc' = "poll" /\ chunks_head' # NULL

\* the fragment index fails on the chain of the arena cs from chunk c on: the
\* tail starts at or before live_current_time and generate_new_chunk returns
\* NULL for it
IndexFailed(cs, c) ==
    LET t == ChainTail(cs, c)
    IN StartOnClock(cs[t]) <= live_current_time /\ NewChunkAfter(cs[t]) = NoChunk

\* a step that adds chunks to the chain behind its head
AppendedAfterHead ==
    Len(chunks') > Len(chunks) + (IF chunks_head = NULL THEN 1 ELSE 0)

\* the walk of maintain_live_chunks signals dl_cond exactly when it appended a
\* chunk after the head
SignalledOnAppend ==
    (l_pc = "maintain" /\ l_pc' = "gc" /\ chunks_head' # NULL
        /\ ~IndexFailed(chunks', chunks_head'))
       => /\ l_dl' <=> AppendedAfterHead
          /\ d_pc = "waiting" => (d_pc' = "top" <=> AppendedAfterHead)

\* C25 as claimed: after maintain_live_chunks returns with a non-empty chain
\* and no fragment-index failure, the tail chunk of the chain satisfies
\* timestamp * timescale / afrt_timescale > live_current_time, every chunk
\* before the tail satisfies timestamp * timescale / afrt_timescale <=
\* live_current_time, and dl_cond was signalled in that cycle exactly when at
\* least one chunk was appended after the head.
C25_TailAfterNow ==
    [][/\ (MaintainReturns /\ ~IndexFailed(chunks', chunks_head'))
            => LET ch == Chain(chunks', chunks_head')
                   n  == Len(ch)
               IN /\ StartOnClock(chunks'[ch[n]]) > live_current_time
                  /\ \A i \in 1..(n - 1) :
                        StartOnClock(chunks'[ch[i]]) <= live_current_time
       /\ SignalledOnAppend]_vars

\* C25 as amended: after maintain_live_chunks returns with a non-empty chain
\* and no fragment-index failure, if the cycle appended a chunk after the head
\* then the tail starts after live_current_time and every chunk before the tail
\* starts at or before it; if it appended none, some chunk of the chain starts
\* after live_current_time and every chunk before the first such chunk starts
\* at or before it (the chunks behind it are not looked at); dl_cond was
\* signalled in that cycle exactly when a chunk was appended after the head.
C25_TailAfterNowIfAppended ==
    [][/\ (MaintainReturns /\ ~IndexFailed(chunks', chunks_head'))
            => LET ch == Chain(chunks', chunks_head')
                   n  == Len(ch)
               IN \E k \in 1..n :
                     /\ l_dl => k = n
                     /\ StartOnClock(chunks'[ch[k]]) > live_current_time
                     /\ \A i \in 1..(k - 1) :
                           StartOnClock(chunks'[ch[i]]) <= live_current_time
       /\ SignalledOnAppend]_vars

\* maintain_live_chunks is about to return after it appended to a chain that
\* an earlier cycle had built
C25_Witness ==
    /\ l_pc = "sethead" /\ l_dl /\ l_polls = 2
    /\ l_chunk # NULL /\ Len(Chain(chunks, l_chunk)) >= 3

(* Properties of the mdat locator, under SpecMdat *)

\* the box whose header is at offset h of the buffer b declares a size below
\* that of its own header: less than 8, or less than 16 in the 64-bit form
SmallBoxAt(b, h) ==
    IF U32_AT(b, h) = 1
    THEN Len(b) - (h + 8) >= 12 /\ U64_AT(b, h + 8) < 16
    ELSE U32_AT(b, h) < 8

\* C26: the mdat locator terminates on every fragment payload of bounded
\* length (each turn of its loop leaves the cursor further on than the turn
\* found it), and reports a parse failure (null mdat pointer, length 0)
\* whenever it meets a box whose declared size is less than 8, or less than 16
\* in the 64-bit form; in particular a non-mdat box with declared size 0 does
\* not make it loop forever or move its cursor backwards.
C26_MdatLocatorAdvances ==
    [][b_pc = "mdat_box"
          => /\ SmallBoxAt(blob, data_p - 8) => b_pc' = "mdat_failed"
             /\ b_pc' = "mdat" => data_p' > data_p - 8]_vars

(* Properties of the manifest parser, under SpecManifest *)

\* the pairs (media element, bootstrapInfo element) of the manifest mf, by
\* rank, whose ids are both absent or both present and equal
MatchingPairs(mf) ==
    { pr \in (1..Len(mf.medias)) \X (1..Len(mf.bootstraps)) :
         \/ mf.medias[pr[1]] = NoId /\ mf.bootstraps[pr[2]] = NoId
         \/ /\ mf.medias[pr[1]] # NoId /\ mf.bootstraps[pr[2]] # NoId
            /\ mf.medias[pr[1]] = mf.bootstraps[pr[2]] }

\* C27: after the manifest is parsed, the number of HDSStreams created equals
\* the number of pairs (media entry M, bootstrap B) present in the manifest
\* such that M.bootstrapInfoId and B.id are both absent or both present and
\* equal; no stream is created for a media slot that the manifest did not
\* contain.
C27_StreamPerMatch ==
    x_pc = "done"
       => /\ Len(hds_streams) = Cardinality(MatchingPairs(manifest))
          /\ \A n \in 1..Len(hds_streams) :
                hds_streams[n][1] < Len(manifest.medias)

\* C28: a manifest with k <= 10 bootstrapInfo elements has all k of them taken
\* into account when media entries are matched against bootstraps; only
\* bootstraps beyond the tenth are dropped.
C28_TenBootstraps ==
    x_pc = "match"
       => LET k == Len(manifest.bootstraps)
              n == IF k <= MAX_BOOTSTRAP_INFO THEN k ELSE MAX_BOOTSTRAP_INFO
          IN /\ bootstrap_idx = n
             /\ \A b \in 1..n : bootstraps[b].src = b

(* Properties of Open, under SpecOpen *)

\* C29: whenever Open returns an error, all partial state has been torn down
\* and no worker thread started by that Open is still running: in particular
\* if the live poller thread cannot be created after the downloader thread was
\* started, the downloader is stopped and joined before the stream state is
\* freed.
C29_OpenErrorStopsThreads ==
    o_pc = "failed"
        => /\ d_pc \in {"off", "done"} /\ l_pc \in {"off", "done"}
           /\ \A c \in 1..Len(chunks) : chunks[c].freed

(* Properties of the reader at the end of a VOD stream, under SpecOneFragment *)

\* line 1516: the head is the eof chunk and mdat_pos >= mdat_len
EofDrained ==
    /\ ~live /\ chunks_head # NULL
    /\ ~chunks[chunks_head].freed /\ chunks[chunks_head].eof
    /\ chunks[chunks_head].mdat_pos >= chunks[chunks_head].mdat_len

\* the stream's first chunk is its eof chunk: EofDrained holds when Open
\* returns, every read call is a later one
FirstChunkIsLast == ~live /\ chunks # << >> /\ chunks[1].eof

\* the bytes Read has delivered after the FLV header
PayloadBytes(o, sent) == Len(o) - sent

NobodySignals == c_pc # "open" /\ l_pc \in {"off", "done"}

\* Close waits at line 1452 for a downloader that sleeps at line 824 after
\* Close's signal: no step is left that wakes it
JoinStuck == c_pc = "join_dl" /\ d_pc = "waiting" /\ NobodySignals

\* C31: Close always terminates when every fetch succeeds: in every
\* interleaving of Close with the downloader (including Close setting closed
\* and signalling dl_cond between the downloader's test of closed and its entry
\* into the condition wait), the downloader eventually observes closed and
\* exits, so the join in Close returns. Stated on finite runs: Close is never
\* at its join, its signal spent, while the downloader sleeps in vlc_cond_wait
\* and no thread is left to signal.
C31_CloseJoins == ~JoinStuck

\* line 798 finds the chunk at chunks_downloadpos marked failed: the fetch of
\* line 802 has just failed for it
RetryPending ==
    /\ d_pc = "inner" /\ chunks_downloadpos # NULL
    /\ ~chunks[chunks_downloadpos].freed
    /\ chunks[chunks_downloadpos].failed

\* C32: a fetch that keeps failing for the chunk at downloadpos does not stop
\* the downloader from reacting to Close: after Close sets closed, the
\* downloader exits after a bounded number of further fetch attempts, and
\* between two attempts on the same failed chunk it goes back to the closed
\* test or the condition wait instead of retrying in a tight loop. Stated on
\* the downloader's step after a failed fetch: it leads to the test of closed
\* (line 784) or to vlc_cond_wait (line 824), not to the next fetch.
C32_NoTightRetry ==
    [][(RetryPending /\ d_pc' # d_pc) => d_pc' \in {"top", "wait"}]_vars

(* Properties of the wake-up of the downloader, under SpecVodOk *)

\* lines 1576-1597 would generate a chunk for the chain as it is
LeadTimeGenerates ==
    /\ chunks_head # NULL
    /\ LeadTime(chunks, chunks_head, chunks[chunks_head].duration, FALSE).dl

\* the head chunk waits for its data while the downloader sleeps in
\* vlc_cond_wait and the reader, out of Read, has nothing to generate: a Read
\* call finds no data at the head (line 1521), generates nothing and does not
\* signal (line 1599)
Starved ==
    /\ ~live /\ d_pc = "waiting" /\ r_pc = "idle"
    /\ chunks_head # NULL /\ ~chunks[chunks_head].freed
    /\ chunks[chunks_head].data = NULL
    /\ ~LeadTimeGenerates

\* C33: under fair scheduling and with every fetch succeeding, every chunk
\* that is appended to the chain (by the open-time pre-priming, by the reader
\* in VOD, or by the live poller) is eventually downloaded, in every
\* interleaving of the appender's signal with the downloader's condition wait;
\* in particular the last (eof) chunk of a VOD stream is eventually downloaded
\* and a reader that keeps calling read eventually reaches eof. Stated on
\* finite runs: the stream never reaches a state in which a chunk of the chain
\* has no data, the downloader sleeps and no signal can come.
C33_AppendedIsDownloaded == ~Starved

(* Properties of the chunks' lifetime, under Spec *)

\* C34: no thread reads or writes a field of a chunk after that chunk has been
\* freed by another thread: the live reader does not test mdat_pos, mdat_len or
\* failed of a chunk the live poller has garbage-collected after the reader
\* advanced its mdat_pos, and the downloader's scan from chunks_head does not
\* follow a chunk that the reader or the poller has freed.
C34_NoUseAfterFree == uaf = {}

(* Properties of Peek's return value, under SpecPeek *)

\* the length the claim gives for a Peek of n bytes once the header is sent,
\* for the head chunk c of the chain cs
PeekLength(cs, c, n) ==
    IF c # NULL /\ ~cs[c].failed /\ cs[c].data # NULL
    THEN Min(n, cs[c].mdat_len - cs[c].mdat_pos)
    ELSE 0

\* Peek returns while header bytes are unsent
PeekOfHeader ==
    r_pc = "idle" /\ r_pc' = "idle" /\ flv_header_bytes_sent < 13 /\ i_peek' \in PeekSizes
        /\ peek_last'.kind = "header"

\* Peek returns once the header is sent
PeekOfChunk == r_pc = "peek" /\ r_pc' = "idle"

\* C35: for every state and every requested count n, peek returns a length
\* between 0 and n inclusive: while header bytes remain unsent it returns
\* min(n, 13 - flv_header_bytes_sent), and afterwards min(n, mdat_len -
\* mdat_pos) of the head chunk, or 0 when the head chunk is absent, failed or
\* has no data.
C35_PeekLength ==
    [][/\ PeekOfHeader
            => /\ peek_last'.len = Min(peek_last'.n, 13 - flv_header_bytes_sent)
               /\ peek_last'.len \in 0..peek_last'.n
       /\ PeekOfChunk
            => /\ peek_last'.len = PeekLength(chunks, chunks_head, i_peek)
               /\ peek_last'.len \in 0..i_peek]_vars

=============================================================================
